---- MODULE Spec2Model ----
(***************************************************************************)
(* Model of the time-series normalisation and aggregation engine of the    *)
(* dashboard (src/src/lib/thingspeak.ts) and of the pipeline in which the  *)
(* components call it:                                                     *)
(*   chart points -> deriveDifferentialSeries (cumulative metrics only)    *)
(*                -> buildMetricPoints -> computeMetricAggregates.         *)
(*                                                                         *)
(* JavaScript numbers are modelled as tagged rationals: k is "num" for a   *)
(* finite number n/d (in lowest terms, d > 0), or "nan", "inf", "ninf";    *)
(* "null" is JavaScript's null.  Rounding of doubles is not modelled.      *)
(*                                                                         *)
(* An epoch in milliseconds is kept as two limbs, epochMs = day *          *)
(* ONE_DAY_MS + ms with 0 <= ms < ONE_DAY_MS, because the millisecond      *)
(* counts of real dates exceed the integers TLC computes with.             *)
(***************************************************************************)
EXTENDS Integers, Sequences, FiniteSets, TLC

VARIABLES
    chartPoints,    \* the ChartValuePoint[] handed to the pipeline
    isCumulative,   \* metric.isCumulative of the metric being aggregated
    clampNegative,  \* options.clampNegative of deriveDifferentialSeries
    pc,             \* position in the pipeline
    series,         \* ChartValuePoint[] after the optional differential step
    metricPoints,   \* MetricPoint[] returned by buildMetricPoints
    aggregates,     \* MetricAggregates returned by computeMetricAggregates
    page,           \* who runs the pipeline: "library" (the functions called
                    \* directly), "dashboard" (Dashboard) or "detail"
                    \* (MetricPage and MetricDetail)
    slug,           \* params.metric of MetricPage; the metric kind on the dashboard
    metric,         \* the descriptor that getMetricConfig returned
    feeds,          \* ThingSpeakFeed[]: the fetched records (Dashboard's state)
    error,          \* the error message shown, or null
    rangeMinutes,   \* MetricDetail's selected time range
    filteredPoints, \* MetricDetail's filteredPoints
    isRefreshing,   \* Dashboard's isRefreshing state
    refreshMs,      \* Dashboard's refreshMs state
    cancelled,      \* the `cancelled` flag of each run of the polling effect
    timer,          \* the run of the effect whose interval timer is set, or 0
    requests,       \* the refreshFeeds calls made, in the order of their issue
    routeCall,      \* history: the latest call of the API route and its answer
    feedsFrom       \* history: the request whose response is in feeds, or 0

pipelineVars ==
    <<chartPoints, isCumulative, clampNegative, pc, series, metricPoints, aggregates>>
pipelineVarsButPc ==
    <<chartPoints, isCumulative, clampNegative, series, metricPoints, aggregates>>
pageVars == <<page, slug, metric, rangeMinutes, filteredPoints>>
pollVars == <<isRefreshing, refreshMs, cancelled, timer, requests, routeCall, feedsFrom>>
vars == <<pipelineVars, pageVars, feeds, error, pollVars>>

(***************************************************************************)
(* Bounds of the model.                                                    *)
(***************************************************************************)
MaxLen == 3
MaxFeeds == 2       \* the most records in a fetched feed list
MaxRequests == 3    \* the most refreshFeeds calls in a behaviour

(***************************************************************************)
(* JavaScript numbers.                                                     *)
(***************************************************************************)
Abs(x) == IF x < 0 THEN -x ELSE x

RECURSIVE GCD(_, _)
GCD(a, b) == IF b = 0 THEN a ELSE GCD(b, a % b)

Rat(n, d) ==
    LET g == GCD(Abs(n), d)
    IN  [k |-> "num", n |-> n \div g, d |-> d \div g]

Num(n) == [k |-> "num", n |-> n, d |-> 1]
NaN == [k |-> "nan", n |-> 0, d |-> 1]
PosInf == [k |-> "inf", n |-> 0, d |-> 1]
NegInf == [k |-> "ninf", n |-> 0, d |-> 1]
Null == [k |-> "null", n |-> 0, d |-> 1]

\* Number.isFinite(x); false for null as well (null is not a number)
IsFinite(x) == x.k = "num"

\* a + b
JsAdd(a, b) ==
    CASE a.k = "nan" \/ b.k = "nan" -> NaN
      [] a.k = "inf" -> IF b.k = "ninf" THEN NaN ELSE PosInf
      [] a.k = "ninf" -> IF b.k = "inf" THEN NaN ELSE NegInf
      [] b.k = "inf" -> PosInf
      [] b.k = "ninf" -> NegInf
      [] OTHER -> Rat(a.n * b.d + b.n * a.d, a.d * b.d)

\* -a
JsNeg(a) ==
    CASE a.k = "inf" -> NegInf
      [] a.k = "ninf" -> PosInf
      [] a.k = "nan" -> NaN
      [] OTHER -> Rat(-a.n, a.d)

\* a - b
JsSub(a, b) == JsAdd(a, JsNeg(b))

\* a < b
JsLess(a, b) ==
    CASE a.k = "nan" \/ b.k = "nan" -> FALSE
      [] a.k = "inf" -> FALSE
      [] b.k = "ninf" -> FALSE
      [] a.k = "ninf" -> TRUE
      [] b.k = "inf" -> TRUE
      [] OTHER -> a.n * b.d < b.n * a.d

\* Math.max(a, b)
JsMax2(a, b) ==
    IF a.k = "nan" \/ b.k = "nan" THEN NaN
    ELSE IF JsLess(a, b) THEN b ELSE a

\* Math.min(a, b)
JsMin2(a, b) ==
    IF a.k = "nan" \/ b.k = "nan" THEN NaN
    ELSE IF JsLess(b, a) THEN b ELSE a

\* mutant: the divisor is one too large
JsDivCountOneMore(a, n) ==
    IF a.k = "num" THEN Rat(a.n, a.d * (n + 1)) ELSE a

\* a / n for a positive integer n (a length or a count)
JsDivCount(a, n) ==
    IF a.k = "num" THEN Rat(a.n, a.d * n) ELSE a

(***************************************************************************)
(* Timestamps and Date.parse.  A timestamp is null, the empty string, a    *)
(* string that is no date ("text"), or an ISO-8601 date-time string given  *)
(* by its fields: year, month, day, hour, minute, second, millisecond and  *)
(* the zone offset in minutes ("Z" is 0, "+01:00" is 60).                  *)
(***************************************************************************)
ONE_HOUR_MS == 3600000
ONE_DAY_MS == 86400000
ONE_MONTH_DAYS == 30

Iso(y, mo, d, h, mi, s, ms, off) ==
    [k |-> "iso", y |-> y, mo |-> mo, d |-> d, h |-> h, mi |-> mi, s |-> s,
     ms |-> ms, off |-> off]
NoStamp(kind) ==
    [k |-> kind, y |-> 0, mo |-> 0, d |-> 0, h |-> 0, mi |-> 0, s |-> 0,
     ms |-> 0, off |-> 0]
NullStamp == NoStamp("null")
EmptyStamp == NoStamp("empty")
TextStamp == NoStamp("text")

\* an epoch: day * ONE_DAY_MS + ms milliseconds since 1970-01-01T00:00:00Z
Epoch(day, ms) == [k |-> "num", day |-> day, ms |-> ms]
NaNEpoch == [k |-> "nan", day |-> 0, ms |-> 0]

\* days from 1970-01-01 to the civil date y-mo-d (proleptic Gregorian)
DaysFromCivil(y, mo, d) ==
    LET yy == IF mo <= 2 THEN y - 1 ELSE y
        era == yy \div 400
        yoe == yy - era * 400
        mp == IF mo > 2 THEN mo - 3 ELSE mo + 9
        doy == (153 * mp + 2) \div 5 + d - 1
        doe == yoe * 365 + yoe \div 4 - yoe \div 100 + doy
    IN  era * 146097 + doe - 719468

\* Date.parse(timestamp) for a string timestamp: NaN unless the string is a
\* date-time whose fields are in range
DateParse(t) ==
    IF t.k # "iso" THEN NaNEpoch
    ELSE IF ~ (/\ t.mo \in 1..12 /\ t.d \in 1..31 /\ t.h \in 0..23
               /\ t.mi \in 0..59 /\ t.s \in 0..59 /\ t.ms \in 0..999)
    THEN NaNEpoch
    ELSE LET total == t.h * ONE_HOUR_MS + (t.mi - t.off) * 60000
                      + t.s * 1000 + t.ms
         IN  Epoch(DaysFromCivil(t.y, t.mo, t.d) + total \div ONE_DAY_MS,
                   total % ONE_DAY_MS)

\* Number.isFinite(epochMs)
EpochIsFinite(e) == e.k = "num"

\* sign of a - b for two finite epochs
EpochCompare(a, b) ==
    IF a.day # b.day THEN (IF a.day < b.day THEN -1 ELSE 1)
    ELSE IF a.ms # b.ms THEN (IF a.ms < b.ms THEN -1 ELSE 1)
    ELSE 0

\* a - ms milliseconds, for 0 <= ms <= ONE_DAY_MS
EpochMinusMs(a, ms) ==
    IF a.ms >= ms THEN Epoch(a.day, a.ms - ms)
    ELSE Epoch(a.day - 1, a.ms + ONE_DAY_MS - ms)

\* mutant: the days are added
EpochPlusDays(a, days) == Epoch(a.day + days, a.ms)

\* a - days * ONE_DAY_MS
EpochMinusDays(a, days) == Epoch(a.day - days, a.ms)

(***************************************************************************)
(* buildMetricPoints: the Record Normalizer.                               *)
(***************************************************************************)
ChartValuePoint(t, v) == [timestamp |-> t, value |-> v]
MetricPoint(t, e, v) == [timestamp |-> t, epochMs |-> e, value |-> v]

\* !point.timestamp: null and the empty string are falsy
TimestampMissing(t) == t.k = "null" \/ t.k = "empty"

\* mutant: a point with a null value is kept
DropsPointKeepNull(point) ==
    \/ TimestampMissing(point.timestamp)
    \/ ~ EpochIsFinite(DateParse(point.timestamp))

\* mutant: a point whose timestamp does not parse is kept
DropsPointKeepUnparseable(point) ==
    \/ TimestampMissing(point.timestamp)
    \/ point.value.k = "null"

\* the .map callback's null result: the point is to be dropped
DropsPoint(point) ==
    \/ TimestampMissing(point.timestamp)
    \/ point.value.k = "null"
    \/ ~ EpochIsFinite(DateParse(point.timestamp))

\* the .map callback's object result
ToMetricPoint(point) ==
    MetricPoint(point.timestamp, DateParse(point.timestamp), point.value)

\* .map(...).filter(point !== null)
RECURSIVE MapFilter(_)
MapFilter(points) ==
    IF points = <<>> THEN <<>>
    ELSE IF DropsPoint(Head(points)) THEN MapFilter(Tail(points))
    ELSE <<ToMetricPoint(Head(points))>> \o MapFilter(Tail(points))

\* mutant: the comparator with its operands exchanged
CompareEpochMsReversed(a, b) == EpochCompare(b.epochMs, a.epochMs)

\* the sort comparator (a, b) => a.epochMs - b.epochMs
CompareEpochMs(a, b) == EpochCompare(a.epochMs, b.epochMs)

\* mutant: p put in front of the elements that compare equal to it
RECURSIVE InsertSortedUnstable(_, _)
InsertSortedUnstable(s, p) ==
    IF s = <<>> THEN <<p>>
    ELSE IF CompareEpochMs(Head(s), p) < 0
         THEN <<Head(s)>> \o InsertSortedUnstable(Tail(s), p)
         ELSE <<p>> \o s

\* p put into the sorted sequence s behind every element that does not
\* compare greater than it
RECURSIVE InsertSorted(_, _)
InsertSorted(s, p) ==
    IF s = <<>> THEN <<p>>
    ELSE IF CompareEpochMs(Head(s), p) <= 0
         THEN <<Head(s)>> \o InsertSorted(Tail(s), p)
         ELSE <<p>> \o s

\* Array.prototype.sort with that comparator: a stable sort
RECURSIVE SortByEpochMsFrom(_, _)
SortByEpochMsFrom(sorted, rest) ==
    IF rest = <<>> THEN sorted
    ELSE SortByEpochMsFrom(InsertSorted(sorted, Head(rest)), Tail(rest))

SortByEpochMs(points) == SortByEpochMsFrom(<<>>, points)

buildMetricPoints(points) == SortByEpochMs(MapFilter(points))

\* mutant: the dropped points are removed from the argument array as well
buildMetricPointsCompactsArgument(points) ==
    LET Kept(point) == ~ DropsPoint(point)
    IN  SelectSeq(points, Kept)

\* the argument array after the call: .map and .filter return new arrays
\* and .sort orders the new one in place, so the argument is as it was
buildMetricPointsArgument(points) == points

(***************************************************************************)
(* deriveDifferentialSeries: the Differential Transformer.                 *)
(***************************************************************************)
\* mutant: a negative difference is clamped to 0
DiffStepClampZero(previous, current, clamp) ==
    IF current.k = "null" \/ ~ IsFinite(current)
    THEN [emit |-> Null, previous |-> current]
    ELSE IF previous.k = "null" \/ ~ IsFinite(previous)
    THEN [emit |-> Null, previous |-> current]
    ELSE LET diff == JsSub(current, previous)
             out == IF JsLess(diff, Num(0))
                    THEN (IF clamp THEN Num(0) ELSE diff)
                    ELSE diff
         IN  [emit |-> out, previous |-> current]

\* mutant: a null or non-finite value leaves the cursor where it is
DiffStepKeepCursor(previous, current, clamp) ==
    IF current.k = "null" \/ ~ IsFinite(current)
    THEN [emit |-> Null, previous |-> previous]
    ELSE IF previous.k = "null" \/ ~ IsFinite(previous)
    THEN [emit |-> Null, previous |-> current]
    ELSE LET diff == JsSub(current, previous)
             out == IF JsLess(diff, Num(0))
                    THEN (IF clamp THEN JsMax2(Num(0), current) ELSE diff)
                    ELSE diff
         IN  [emit |-> out, previous |-> current]

\* mutant: a negative difference is replaced by the current value as it is
DiffStepClampCurrent(previous, current, clamp) ==
    IF current.k = "null" \/ ~ IsFinite(current)
    THEN [emit |-> Null, previous |-> current]
    ELSE IF previous.k = "null" \/ ~ IsFinite(previous)
    THEN [emit |-> Null, previous |-> current]
    ELSE LET diff == JsSub(current, previous)
             out == IF JsLess(diff, Num(0))
                    THEN (IF clamp THEN current ELSE diff)
                    ELSE diff
         IN  [emit |-> out, previous |-> current]

\* one step of the .map callback: the value emitted for `current` and the
\* new `previous` cursor
DiffStep(previous, current, clamp) ==
    IF current.k = "null" \/ ~ IsFinite(current)
    THEN [emit |-> Null, previous |-> current]
    ELSE IF previous.k = "null" \/ ~ IsFinite(previous)
    THEN [emit |-> Null, previous |-> current]
    ELSE LET diff == JsSub(current, previous)
             out == IF JsLess(diff, Num(0))
                    THEN (IF clamp THEN JsMax2(Num(0), current) ELSE diff)
                    ELSE diff
         IN  [emit |-> out, previous |-> current]

RECURSIVE DiffFrom(_, _, _)
DiffFrom(previous, points, clamp) ==
    IF points = <<>> THEN <<>>
    ELSE LET step == DiffStep(previous, Head(points).value, clamp)
         IN  <<[Head(points) EXCEPT !.value = step.emit]>>
             \o DiffFrom(step.previous, Tail(points), clamp)

\* mutant: the points without a value are left out of the result
deriveDroppingGaps(points, clamp) ==
    LET HasValue(point) == point.value.k # "null"
    IN  DiffFrom(Null, SelectSeq(points, HasValue), clamp)

deriveDifferentialSeries(points, clamp) == DiffFrom(Null, points, clamp)

\* the argument array after the call: .map returns a new array of new
\* objects ({ ...point, value }), so the argument is as it was
deriveDifferentialSeriesArgument(points) == points

(***************************************************************************)
(* Date objects: UTC calendar fields of an epoch, toISOString, startOf.    *)
(***************************************************************************)
\* the civil date [y, mo, d] of the day number `days` (proleptic Gregorian)
CivilFromDays(days) ==
    LET z == days + 719468
        era == z \div 146097
        doe == z - era * 146097
        yoe == (doe - doe \div 1460 + doe \div 36524 - doe \div 146096) \div 365
        doy == doe - (365 * yoe + yoe \div 4 - yoe \div 100)
        mp == (5 * doy + 2) \div 153
        d == doy - (153 * mp + 2) \div 5 + 1
        mo == IF mp < 10 THEN mp + 3 ELSE mp - 9
    IN  [y |-> (yoe + era * 400) + (IF mo <= 2 THEN 1 ELSE 0), mo |-> mo, d |-> d]

\* date.getUTCHours()
UTCHours(e) == e.ms \div ONE_HOUR_MS

\* date.toISOString(): always in UTC ("Z")
ToISOString(e) ==
    LET c == CivilFromDays(e.day)
    IN  Iso(c.y, c.mo, c.d, UTCHours(e), (e.ms % ONE_HOUR_MS) \div 60000,
            (e.ms % 60000) \div 1000, e.ms % 1000, 0)

\* startOf(mode, epochMs): the Date truncated to the start of its UTC
\* month, day or hour
\* mutant: the month is not moved back to its first day
startOfKeepsDayOfMonth(mode, e) ==
    CASE ~ EpochIsFinite(e) -> NaNEpoch
      [] mode = "month" -> Epoch(e.day, 0)
      [] mode = "day" -> Epoch(e.day, 0)
      [] OTHER -> Epoch(e.day, e.ms - (e.ms % ONE_HOUR_MS))

startOf(mode, e) ==
    CASE ~ EpochIsFinite(e) -> NaNEpoch     \* new Date(NaN) stays an Invalid Date
      [] mode = "month" -> Epoch(e.day - (CivilFromDays(e.day).d - 1), 0)
      [] mode = "day" -> Epoch(e.day, 0)
      [] OTHER -> Epoch(e.day, e.ms - (e.ms % ONE_HOUR_MS))

\* date.toISOString() throws a RangeError for an Invalid Date
ToISOStringThrows(e) == ~ EpochIsFinite(e)

\* mutant: the key leaves the year out
bucketKeyWithoutYear(e, mode) ==
    LET c == CivilFromDays(e.day)
    IN  CASE mode = "month" -> <<c.mo>>
          [] mode = "day" -> <<c.mo, c.d>>
          [] OTHER -> <<c.mo, c.d, UTCHours(e)>>

\* bucketKey(date, mode): the fields joined by "-" are kept as a tuple
bucketKey(e, mode) ==
    LET c == CivilFromDays(e.day)
    IN  CASE mode = "month" -> <<c.y, c.mo>>
          [] mode = "day" -> <<c.y, c.mo, c.d>>
          [] OTHER -> <<c.y, c.mo, c.d, UTCHours(e)>>

\* formatBucketLabel(iso, mode): the fields that toLocaleString shows
formatBucketLabel(iso, mode) ==
    LET e == DateParse(iso)
        c == CivilFromDays(e.day)
    IN  IF ~ EpochIsFinite(e) THEN <<"iso", iso>>
        ELSE CASE mode = "month" -> <<"month", c.mo, c.y>>
               [] mode = "day" -> <<"day", c.mo, c.d, c.y>>
               [] OTHER -> <<"hour", c.mo, c.d, UTCHours(e)>>

(***************************************************************************)
(* buildBuckets: the Bucketizer.                                           *)
(***************************************************************************)
\* mutant: a point whose key is in the Map replaces the entry
RECURSIVE AccumulateOverwrites(_, _, _)
AccumulateOverwrites(buckets, point, mode) ==
    LET bucketStart == startOf(mode, point.epochMs)
        key == bucketKey(bucketStart, mode)
        entry == [key |-> key, sum |-> point.value, count |-> 1,
                  startIso |-> ToISOString(bucketStart), startEpoch |-> bucketStart]
    IN  IF buckets = <<>> THEN <<entry>>
        ELSE IF Head(buckets).key = key THEN <<entry>> \o Tail(buckets)
        ELSE <<Head(buckets)>> \o AccumulateOverwrites(Tail(buckets), point, mode)

\* the Map after `point` is accumulated; entries are kept in insertion order
RECURSIVE Accumulate(_, _, _)
Accumulate(buckets, point, mode) ==
    LET bucketStart == startOf(mode, point.epochMs)
        key == bucketKey(bucketStart, mode)
    IN  IF buckets = <<>>
        THEN <<[key |-> key, sum |-> point.value, count |-> 1,
                startIso |-> ToISOString(bucketStart), startEpoch |-> bucketStart]>>
        ELSE IF Head(buckets).key = key
             THEN <<[Head(buckets) EXCEPT !.sum = JsAdd(@, point.value),
                                          !.count = @ + 1]>> \o Tail(buckets)
             ELSE <<Head(buckets)>> \o Accumulate(Tail(buckets), point, mode)

RECURSIVE AccumulateAll(_, _, _)
AccumulateAll(buckets, points, mode) ==
    IF points = <<>> THEN buckets
    ELSE AccumulateAll(Accumulate(buckets, Head(points), mode), Tail(points), mode)

\* mutant: the average is the running sum, not divided by the count
ToAggregateBucketNoDivide(stats, mode) ==
    [label |-> formatBucketLabel(stats.startIso, mode),
     startIso |-> stats.startIso,
     average |-> IF stats.count > 0 THEN stats.sum ELSE Null,
     total |-> stats.sum,
     count |-> stats.count]

\* the .map callback that turns a Map entry into an AggregateBucket
ToAggregateBucket(stats, mode) ==
    [label |-> formatBucketLabel(stats.startIso, mode),
     startIso |-> stats.startIso,
     average |-> IF stats.count > 0 THEN JsDivCount(stats.sum, stats.count) ELSE Null,
     total |-> stats.sum,
     count |-> stats.count]

\* mutant: the comparator with its operands exchanged (oldest first)
CompareStartAsc(a, b) == EpochCompare(DateParse(a.startIso), DateParse(b.startIso))

\* the comparator (a, b) => Date.parse(b.startIso) - Date.parse(a.startIso)
CompareStartDesc(a, b) == EpochCompare(DateParse(b.startIso), DateParse(a.startIso))

RECURSIVE InsertBucket(_, _)
InsertBucket(s, b) ==
    IF s = <<>> THEN <<b>>
    ELSE IF CompareStartDesc(Head(s), b) <= 0
         THEN <<Head(s)>> \o InsertBucket(Tail(s), b)
         ELSE <<b>> \o s

RECURSIVE SortBucketsFrom(_, _)
SortBucketsFrom(sorted, rest) ==
    IF rest = <<>> THEN sorted
    ELSE SortBucketsFrom(InsertBucket(sorted, Head(rest)), Tail(rest))

\* mutant: one element more than the limit is kept
SliceToOneMore(s, limit) == IF Len(s) <= limit + 1 THEN s ELSE SubSeq(s, 1, limit + 1)

\* .slice(0, limit)
SliceTo(s, limit) == IF Len(s) <= limit THEN s ELSE SubSeq(s, 1, limit)

\* buildBuckets throws where bucketStart.toISOString() does
buildBucketsThrows(points, mode) ==
    \E i \in 1..Len(points) : ToISOStringThrows(startOf(mode, points[i].epochMs))

buildBuckets(points, mode, limit) ==
    IF points = <<>> THEN <<>>
    ELSE LET entries == AccumulateAll(<<>>, points, mode)
             mapped == [i \in 1..Len(entries) |-> ToAggregateBucket(entries[i], mode)]
         IN  SliceTo(SortBucketsFrom(<<>>, mapped), limit)

(***************************************************************************)
(* computeMetricAggregates: the Window Aggregator.                         *)
(***************************************************************************)
HOURLY_LIMIT == 12
DAILY_LIMIT == 10
MONTHLY_LIMIT == 6

\* points.filter(point => point.epochMs >= cutoffMs)
RECURSIVE WindowPoints(_, _)
WindowPoints(points, cutoff) ==
    IF points = <<>> THEN <<>>
    ELSE IF EpochCompare(Head(points).epochMs, cutoff) >= 0
         THEN <<Head(points)>> \o WindowPoints(Tail(points), cutoff)
         ELSE WindowPoints(Tail(points), cutoff)

\* points.reduce((acc, point) => acc + point.value, 0)
RECURSIVE SumFrom(_, _)
SumFrom(acc, points) ==
    IF points = <<>> THEN acc
    ELSE SumFrom(JsAdd(acc, Head(points).value), Tail(points))

SumValues(points) == SumFrom(Num(0), points)

\* Math.min(...values)
RECURSIVE MinFrom(_, _)
MinFrom(acc, points) ==
    IF points = <<>> THEN acc
    ELSE MinFrom(JsMin2(acc, Head(points).value), Tail(points))

\* mutant: the minimum is taken over the values and 0
MinValueWithZero(points) == MinFrom(Num(0), points)

MinValue(points) == MinFrom(PosInf, points)

\* Math.max(...values)
RECURSIVE MaxFrom(_, _)
MaxFrom(acc, points) ==
    IF points = <<>> THEN acc
    ELSE MaxFrom(JsMax2(acc, Head(points).value), Tail(points))

MaxValue(points) == MaxFrom(NegInf, points)

computeWindowAverage(points, cutoff) ==
    LET windowValues == WindowPoints(points, cutoff)
    IN  IF windowValues = <<>> THEN Null
        ELSE JsDivCount(SumValues(windowValues), Len(windowValues))

\* mutant: the reduce is seeded with the first value of the window
computeWindowTotalSeeded(points, cutoff) ==
    LET windowValues == WindowPoints(points, cutoff)
    IN  IF windowValues = <<>> THEN Null
        ELSE SumFrom(Head(windowValues).value, windowValues)

computeWindowTotal(points, cutoff) ==
    LET windowValues == WindowPoints(points, cutoff)
    IN  IF windowValues = <<>> THEN Null ELSE SumValues(windowValues)

\* mutant: the sum of an empty point list is 0
EmptyAggregatesZeroSum ==
    [latestValue |-> Null, latestTimestamp |-> NullStamp,
     min |-> Null, max |-> Null, average |-> Null, sum |-> Num(0),
     sampleCount |-> 0,
     lastHourAverage |-> Null, lastDayAverage |-> Null, lastMonthAverage |-> Null,
     lastHourTotal |-> Null, lastDayTotal |-> Null, lastMonthTotal |-> Null,
     hourlyBuckets |-> <<>>, dailyBuckets |-> <<>>, monthlyBuckets |-> <<>>]

\* the object returned for an empty point list
EmptyAggregates ==
    [latestValue |-> Null, latestTimestamp |-> NullStamp,
     min |-> Null, max |-> Null, average |-> Null, sum |-> Null,
     sampleCount |-> 0,
     lastHourAverage |-> Null, lastDayAverage |-> Null, lastMonthAverage |-> Null,
     lastHourTotal |-> Null, lastDayTotal |-> Null, lastMonthTotal |-> Null,
     hourlyBuckets |-> <<>>, dailyBuckets |-> <<>>, monthlyBuckets |-> <<>>]

\* mutant: the windows are measured from the wall clock
ReferenceMsFromClock(points, now) == now

\* points[points.length - 1]?.epochMs ?? Date.now(), `now` being what
\* Date.now() returns
ReferenceMs(points, now) ==
    IF Len(points) = 0 THEN now ELSE points[Len(points)].epochMs

\* computeMetricAggregates throws where one of its buildBuckets calls does
computeMetricAggregatesThrows(points) ==
    /\ Len(points) # 0
    /\ \E mode \in {"hour", "day", "month"} : buildBucketsThrows(points, mode)

\* the argument array after the call: it is read by .map, .reduce, .filter
\* and for...of only, and the bucket sums are kept in new objects
computeMetricAggregatesArgument(points) == points

computeMetricAggregates(points, now) ==
    IF Len(points) = 0 THEN EmptyAggregates
    ELSE LET sum == SumValues(points)
             last == points[Len(points)]
             referenceMs == ReferenceMs(points, now)
             hourCutoff == EpochMinusMs(referenceMs, ONE_HOUR_MS)
             dayCutoff == EpochMinusMs(referenceMs, ONE_DAY_MS)
             monthCutoff == EpochMinusDays(referenceMs, ONE_MONTH_DAYS)
         IN  [latestValue |-> last.value, latestTimestamp |-> last.timestamp,
              min |-> MinValue(points), max |-> MaxValue(points),
              average |-> JsDivCount(sum, Len(points)),
              sum |-> sum,
              sampleCount |-> Len(points),
              lastHourAverage |-> computeWindowAverage(points, hourCutoff),
              lastDayAverage |-> computeWindowAverage(points, dayCutoff),
              lastMonthAverage |-> computeWindowAverage(points, monthCutoff),
              lastHourTotal |-> computeWindowTotal(points, hourCutoff),
              lastDayTotal |-> computeWindowTotal(points, dayCutoff),
              lastMonthTotal |-> computeWindowTotal(points, monthCutoff),
              hourlyBuckets |-> buildBuckets(points, "hour", HOURLY_LIMIT),
              dailyBuckets |-> buildBuckets(points, "day", DAILY_LIMIT),
              monthlyBuckets |-> buildBuckets(points, "month", MONTHLY_LIMIT)]

(***************************************************************************)
(* The field parser and mapSeries: from fetched records to chart points.   *)
(*                                                                         *)
(* A field of a record is undefined, null or a string.  Of a string the    *)
(* model keeps what Number.parseFloat reads in it: text is "number" (the   *)
(* decimal text of n/d), "prefixed" (that text followed by other           *)
(* characters), "infinity" ("Infinity"), "junk" (no number at its start)   *)
(* or "empty".                                                             *)
(***************************************************************************)
FieldUndefined == [k |-> "undefined", text |-> "", n |-> 0, d |-> 1]
FieldNull == [k |-> "null", text |-> "", n |-> 0, d |-> 1]
FieldText(text, n, d) == [k |-> "string", text |-> text, n |-> n, d |-> d]

\* Number.parseFloat(value)
ParseFloat(value) ==
    CASE value.text \in {"number", "prefixed"} -> Rat(value.n, value.d)
      [] value.text = "infinity" -> PosInf
      [] OTHER -> NaN

\* mutant: Number(value) || 0 in place of the finiteness test
toNumberOrZero(value) ==
    IF value.k \in {"null", "undefined"} THEN Null
    ELSE IF IsFinite(ParseFloat(value)) THEN ParseFloat(value) ELSE Num(0)

\* toNumber(value)
toNumber(value) ==
    IF value.k \in {"null", "undefined"} THEN Null
    ELSE IF IsFinite(ParseFloat(value)) THEN ParseFloat(value) ELSE Null

\* a ThingSpeakFeed
Feed(created_at, field1, field2, field3, field4) ==
    [created_at |-> created_at, field1 |-> field1, field2 |-> field2,
     field3 |-> field3, field4 |-> field4]

\* mapSeries(feeds): its objects have the properties timestamp, temperature
\* and humidity
mapSeries(feedList) ==
    [i \in 1..Len(feedList) |->
        [timestamp |-> feedList[i].created_at,
         temperature |-> toNumber(feedList[i].field4),
         humidity |-> toNumber(feedList[i].field2)]]

\* the value undefined, where a number or null is expected
Undefined == [k |-> "undefined", n |-> 0, d |-> 1]

\* point[key]: undefined where the object has no such property
PointValue(point, key) == IF key \in DOMAIN point THEN point[key] ELSE Undefined

\* value ?? null
OrNull(value) == IF value.k \in {"undefined", "null"} THEN Null ELSE value

\* Dashboard: rawSeries.map(point => ({ timestamp: point.timestamp ?? null,
\* value: point.<key> ?? null }))
DashboardChartPoints(rawSeries, key) ==
    [i \in 1..Len(rawSeries) |->
        ChartValuePoint(rawSeries[i].timestamp, OrNull(PointValue(rawSeries[i], key)))]

(***************************************************************************)
(* The metric registry.  A slug is a sequence of characters, so that       *)
(* toLowerCase is computed.                                                *)
(***************************************************************************)
UpperCase ==
    <<"A", "B", "C", "D", "E", "F", "G", "H", "I", "J", "K", "L", "M",
      "N", "O", "P", "Q", "R", "S", "T", "U", "V", "W", "X", "Y", "Z">>
LowerCase ==
    <<"a", "b", "c", "d", "e", "f", "g", "h", "i", "j", "k", "l", "m",
      "n", "o", "p", "q", "r", "s", "t", "u", "v", "w", "x", "y", "z">>

ToLowerChar(c) ==
    IF \E i \in 1..Len(UpperCase) : UpperCase[i] = c
    THEN LowerCase[CHOOSE i \in 1..Len(UpperCase) : UpperCase[i] = c]
    ELSE c

\* mutant: the slug is used as it is written
ToLowerCaseKeepsCase(string) == string

\* string.toLowerCase()
ToLowerCase(string) == [i \in 1..Len(string) |-> ToLowerChar(string[i])]

TEMPERATURE == <<"t", "e", "m", "p", "e", "r", "a", "t", "u", "r", "e">>
HUMIDITY == <<"h", "u", "m", "i", "d", "i", "t", "y">>
MOTION == <<"m", "o", "t", "i", "o", "n">>
BATTERY == <<"b", "a", "t", "t", "e", "r", "y">>

\* the own property names of the METRIC_CONFIG object
MetricSlugs == {TEMPERATURE, HUMIDITY, MOTION, BATTERY}

\* names of properties that every object inherits from Object.prototype
ObjectPrototypeNames ==
    {<<"c", "o", "n", "s", "t", "r", "u", "c", "t", "o", "r">>,
     <<"_", "_", "p", "r", "o", "t", "o", "_", "_">>,
     <<"t", "o", "S", "t", "r", "i", "n", "g">>,
     <<"v", "a", "l", "u", "e", "O", "f">>,
     <<"h", "a", "s", "O", "w", "n", "P", "r", "o", "p", "e", "r", "t", "y">>}

\* the entries of METRIC_CONFIG (the display fields title, path, chartLabel
\* and the colours are left out)
Descriptor(key) ==
    CASE key = TEMPERATURE ->
             [k |-> "descriptor", slug |-> TEMPERATURE, valueKey |-> "temperature",
              unit |-> "deg C", decimals |-> 2]
      [] key = HUMIDITY ->
             [k |-> "descriptor", slug |-> HUMIDITY, valueKey |-> "humidity",
              unit |-> "%", decimals |-> 1]
      [] key = MOTION ->
             [k |-> "descriptor", slug |-> MOTION, valueKey |-> "motion",
              unit |-> "count", decimals |-> 0, isCumulative |-> TRUE]
      [] key = BATTERY ->
             [k |-> "descriptor", slug |-> BATTERY, valueKey |-> "battery",
              unit |-> "V", decimals |-> 3]

UndefinedConfig == [k |-> "undefined"]

\* METRIC_CONFIG[name]: an own property, or one found on Object.prototype
\* (a function or an object, not a descriptor), or undefined
METRIC_CONFIG(name) ==
    IF name \in MetricSlugs THEN Descriptor(name)
    ELSE IF name \in ObjectPrototypeNames THEN [k |-> "inherited", name |-> name]
    ELSE UndefinedConfig

\* getMetricConfig(slug)
getMetricConfig(string) ==
    IF string = <<>> THEN UndefinedConfig
    ELSE METRIC_CONFIG(ToLowerCase(string))

\* Boolean(metric.isCumulative)
IsCumulativeOf(descriptor) ==
    "isCumulative" \in DOMAIN descriptor /\ descriptor.isCumulative

\* metric.valueKey, "undefined" where the object has no such property
ValueKeyOf(descriptor) ==
    IF "valueKey" \in DOMAIN descriptor THEN descriptor.valueKey ELSE "undefined"

\* MetricPage: the switch on metric.valueKey over the objects of mapSeries
MetricPageChartPoints(rawSeries, descriptor) ==
    [i \in 1..Len(rawSeries) |->
        LET point == rawSeries[i]
            value == CASE ValueKeyOf(descriptor) = "temperature" ->
                              PointValue(point, "temperature")
                       [] ValueKeyOf(descriptor) = "humidity" ->
                              PointValue(point, "humidity")
                       [] ValueKeyOf(descriptor) = "motion" ->
                              PointValue(point, "motion")
                       [] ValueKeyOf(descriptor) = "battery" ->
                              PointValue(point, "battery")
                       [] OTHER -> Null
        IN  ChartValuePoint(point.timestamp, OrNull(value))]

\* MetricDetail: filterPointsByMinutes(points, minutes), `now` being what
\* Date.now() returns
filterPointsByMinutes(points, minutes, now) ==
    IF minutes <= 0 THEN points
    ELSE LET cutoff == EpochMinusDays(EpochMinusMs(now, (minutes % 1440) * 60000),
                                      minutes \div 1440)
             Keeps(point) ==
                 /\ ~ TimestampMissing(point.timestamp)
                 /\ EpochIsFinite(DateParse(point.timestamp))
                 /\ EpochCompare(DateParse(point.timestamp), cutoff) >= 0
         IN  SelectSeq(points, Keeps)

(***************************************************************************)
(* Inputs.  T1 and T1b are two different strings for the same instant.     *)
(***************************************************************************)
T0 == Iso(2024, 1, 1, 0, 0, 0, 0, 0)     \* "2024-01-01T00:00:00Z"
T1 == Iso(2024, 1, 1, 1, 0, 0, 0, 0)     \* "2024-01-01T01:00:00Z"
T1b == Iso(2024, 1, 1, 2, 0, 0, 0, 60)   \* "2024-01-01T02:00:00+01:00"
T2 == Iso(2024, 1, 1, 2, 0, 0, 0, 0)     \* "2024-01-01T02:00:00Z"
T3 == Iso(2024, 1, 1, 3, 0, 0, 0, 0)     \* "2024-01-01T03:00:00Z"

\* chart points as the field parser yields them: the value is null or finite
FinitePool ==
    {ChartValuePoint(t, v) :
        t \in {NullStamp, EmptyStamp, TextStamp, T0, T1, T1b},
        v \in {Null, Num(10), Num(20)}}

\* chart points of the type ChartValuePoint whose value is not finite
NonFinitePool ==
    {ChartValuePoint(T0, NaN), ChartValuePoint(T1, PosInf), ChartValuePoint(T1b, NegInf)}

\* readings of a counter, with gaps, resets and malformed values
CounterPool ==
    {ChartValuePoint(t, v) :
        t \in {NullStamp, T0, T1},
        v \in {Null, NaN, Num(-2), Num(0), Num(3)}}

\* the sequences over `pool` of length at most n
SeqsUpTo(pool, n) == UNION {[1..m -> pool] : m \in 0..n}

\* the series of the design's worked examples
Hourly(values) ==
    [i \in 1..Len(values) |-> ChartValuePoint(<<T0, T1, T2, T3>>[i], values[i])]
ResetExample == Hourly(<<Num(10), Num(15), Num(12), Num(20)>>)
GapExample == Hourly(<<Null, Num(10), Null, Num(20)>>)
ZeroResetExample == Hourly(<<Num(5), Num(0)>>)
EndToEndExample == Hourly(<<Num(10), Num(20), Null>>)
Examples == {ResetExample, GapExample, ZeroResetExample, EndToEndExample}

\* an error state: null, or the message of an Error
NoError == [k |-> "null", text |-> "", status |-> 0]
ErrorMessage(text, status) == [k |-> "message", text |-> text, status |-> status]

\* a JSON body of the channel: `feeds` may be absent
Body(hasFeeds, feedList) == [hasFeeds |-> hasFeeds, feeds |-> feedList]
NoBody == Body(FALSE, <<>>)

\* the process environment: each variable is "undefined", "" or a value
Environment(channelId, publicChannelId, readKey, publicReadKey) ==
    [THINGSPEAK_CHANNEL_ID |-> channelId,
     NEXT_PUBLIC_THINGSPEAK_CHANNEL_ID |-> publicChannelId,
     THINGSPEAK_READ_KEY |-> readKey,
     NEXT_PUBLIC_THINGSPEAK_READ_KEY |-> publicReadKey]

\* what the browser gets from the route
RouteResponse(status, message, data) ==
    [status |-> status, error |-> message, data |-> data]

\* a call of the route: what it was run against and what it answered
RouteCall(env, upstream, response) ==
    [env |-> env, upstream |-> upstream, response |-> response]
NoEnvironment == Environment("", "", "", "")
NoUpstream == [k |-> "pending", status |-> 0, body |-> NoBody]
NoCall == RouteCall(NoEnvironment, NoUpstream, RouteResponse(0, NoError, NoBody))

\* the functions of the library are called on given chart points: there is
\* no page, no fetched record and no polling
LibraryUse ==
    /\ page = "library"
    /\ slug = <<>>
    /\ metric = UndefinedConfig
    /\ feeds = <<>>
    /\ error = NoError
    /\ rangeMinutes = 1440
    /\ filteredPoints = <<>>
    /\ isRefreshing = FALSE
    /\ refreshMs = 30000
    /\ cancelled = <<>>
    /\ timer = 0
    /\ requests = <<>>
    /\ routeCall = NoCall
    /\ feedsFrom = 0

InitWith(plainInputs) ==
    /\ isCumulative \in BOOLEAN
    /\ clampNegative \in (IF isCumulative THEN BOOLEAN ELSE {TRUE})
    /\ chartPoints \in (IF isCumulative THEN SeqsUpTo(CounterPool, MaxLen)
                                       ELSE plainInputs) \cup Examples
    /\ pc = "chart"
    /\ series = <<>>
    /\ metricPoints = <<>>
    /\ aggregates = <<>>
    /\ LibraryUse

\* readings at and next to the UTC hour, day, month and year boundaries; the
\* values are powers of two, so that a sum tells which readings are in it
CalendarPool ==
    {ChartValuePoint(Iso(2023, 1, 15, 10, 30, 0, 0, 0), Num(1)),
     ChartValuePoint(Iso(2023, 12, 31, 23, 59, 59, 999, 0), Num(2)),
     ChartValuePoint(Iso(2024, 1, 1, 0, 0, 0, 0, 0), Num(4)),
     ChartValuePoint(Iso(2024, 1, 15, 10, 0, 0, 0, 0), Num(8)),
     ChartValuePoint(Iso(2024, 2, 15, 10, 59, 59, 999, 0), Num(16)),
     ChartValuePoint(Iso(2024, 3, 1, 0, 30, 0, 0, 60), Num(32)),  \* 02-29T23:30Z
     ChartValuePoint(Iso(2024, 3, 1, 0, 0, 0, 0, 0), Num(64))}

\* 25 readings an hour apart, from 2024-01-01T00:00Z to 2024-01-02T00:00Z
HourlyRun ==
    [i \in 1..25 |->
        ChartValuePoint(Iso(2024, 1, 1 + (i - 1) \div 24, (i - 1) % 24, 0, 0, 0, 0),
                        Num(i))]

\* 11 readings a day apart, from 2024-01-25 to 2024-02-04
DailyRun ==
    [i \in 1..11 |->
        ChartValuePoint(IF i <= 7 THEN Iso(2024, 1, 24 + i, 12, 0, 0, 0, 0)
                                  ELSE Iso(2024, 2, i - 7, 12, 0, 0, 0, 0),
                        Num(i))]

\* 7 readings a month apart, from 2023-09-15 to 2024-03-15
MonthlyRun ==
    [i \in 1..7 |->
        ChartValuePoint(IF i <= 4 THEN Iso(2023, 8 + i, 15, 6, 0, 0, 0, 0)
                                  ELSE Iso(2024, i - 4, 15, 6, 0, 0, 0, 0),
                        Num(i))]

\* readings at the three window cutoffs of the last one, 2024-03-31T12:00Z,
\* and 1 ms before each cutoff
WindowEdges ==
    <<ChartValuePoint(Iso(2024, 3, 1, 11, 59, 59, 999, 0), Num(1)),
      ChartValuePoint(Iso(2024, 3, 1, 12, 0, 0, 0, 0), Num(2)),
      ChartValuePoint(Iso(2024, 3, 30, 11, 59, 59, 999, 0), Num(4)),
      ChartValuePoint(Iso(2024, 3, 30, 12, 0, 0, 0, 0), Num(8)),
      ChartValuePoint(Iso(2024, 3, 31, 10, 59, 59, 999, 0), Num(16)),
      ChartValuePoint(Iso(2024, 3, 31, 11, 0, 0, 0, 0), Num(32)),
      ChartValuePoint(Iso(2024, 3, 31, 12, 0, 0, 0, 0), Num(64))>>

\* 13 readings in 7 months, 11 days and 13 hours, more than the limits: six a
\* month apart from 2023-09-15, five a day apart from 2024-03-11, and two in
\* the next hours of 2024-03-15
LongRun ==
    [i \in 1..13 |->
        ChartValuePoint(CASE i <= 4 -> Iso(2023, 8 + i, 15, 6, 0, 0, 0, 0)
                          [] i \in 5..6 -> Iso(2024, i - 4, 15, 6, 0, 0, 0, 0)
                          [] i \in 7..11 -> Iso(2024, 3, 4 + i, 6, 0, 0, 0, 0)
                          [] OTHER -> Iso(2024, 3, 15, i - 5, 0, 0, 0, 0),
                        Num(i))]

CalendarExamples == {HourlyRun, DailyRun, MonthlyRun, WindowEdges, LongRun}

\* what Date.now() may return
WallClock == {Epoch(19723, 0), Epoch(20500, 1234)}

\* the values of a plain (non-cumulative) metric are null or finite
Init == InitWith(SeqsUpTo(FinitePool, MaxLen))

\* the values of a plain metric are any of the type number | null
InitAnyNumber == InitWith(SeqsUpTo(FinitePool \cup NonFinitePool, MaxLen))

\* readings spread over the calendar
InitCalendar ==
    /\ isCumulative \in BOOLEAN
    /\ clampNegative \in (IF isCumulative THEN BOOLEAN ELSE {TRUE})
    /\ chartPoints \in SeqsUpTo(CalendarPool, MaxLen) \cup CalendarExamples \cup Examples
    /\ pc = "chart"
    /\ series = <<>>
    /\ metricPoints = <<>>
    /\ aggregates = <<>>
    /\ LibraryUse

(***************************************************************************)
(* The pipeline of Dashboard and MetricDetail.                             *)
(***************************************************************************)
\* mutant: the chart points are normalized before they are differenced
DeriveAfterNormalizing ==
    /\ pc = "chart"
    /\ isCumulative
    /\ series' =
           LET normalized == buildMetricPoints(chartPoints)
           IN  deriveDifferentialSeries(
                   [i \in 1..Len(normalized) |->
                       ChartValuePoint(normalized[i].timestamp, normalized[i].value)],
                   clampNegative)
    /\ chartPoints' = chartPoints
    /\ pc' = "series"
    /\ UNCHANGED <<isCumulative, clampNegative, metricPoints, aggregates>>
    /\ UNCHANGED <<pageVars, feeds, error, pollVars>>

\* a cumulative metric: the chart points are differenced
DeriveDifferentialSeries ==
    /\ pc = "chart"
    /\ isCumulative
    /\ series' = deriveDifferentialSeries(chartPoints, clampNegative)
    /\ chartPoints' = deriveDifferentialSeriesArgument(chartPoints)
    /\ pc' = "series"
    /\ UNCHANGED <<isCumulative, clampNegative, metricPoints, aggregates>>
    /\ UNCHANGED <<pageVars, feeds, error, pollVars>>

\* any other metric: the chart points are used as they are
SkipDifferential ==
    /\ pc = "chart"
    /\ ~ isCumulative
    /\ series' = chartPoints
    /\ pc' = "series"
    /\ UNCHANGED <<chartPoints, isCumulative, clampNegative, metricPoints, aggregates>>
    /\ UNCHANGED <<pageVars, feeds, error, pollVars>>

BuildMetricPoints ==
    /\ pc = "series"
    /\ page # "detail"
    /\ metricPoints' = buildMetricPoints(series)
    /\ series' = buildMetricPointsArgument(series)
    /\ pc' = "points"
    /\ UNCHANGED <<chartPoints, isCumulative, clampNegative, aggregates>>
    /\ UNCHANGED <<pageVars, feeds, error, pollVars>>

ComputeMetricAggregates ==
    /\ pc = "points"
    /\ \E now \in WallClock :
           IF computeMetricAggregatesThrows(metricPoints)
           THEN pc' = "threw" /\ aggregates' = aggregates
           ELSE /\ aggregates' = computeMetricAggregates(metricPoints, now)
                /\ pc' = "done"
    /\ metricPoints' = computeMetricAggregatesArgument(metricPoints)
    /\ UNCHANGED <<chartPoints, isCumulative, clampNegative, series>>
    /\ UNCHANGED <<pageVars, feeds, error, pollVars>>

Next ==
    \/ DeriveDifferentialSeries
    \/ SkipDifferential
    \/ BuildMetricPoints
    \/ ComputeMetricAggregates

Spec == Init /\ [][Next]_vars

SpecAnyNumber == InitAnyNumber /\ [][Next]_vars

SpecCalendar == InitCalendar /\ [][Next]_vars

(***************************************************************************)
(* The pages: from fetched records to the aggregates of a metric.          *)
(*                                                                         *)
(* page = "dashboard": Dashboard holds the fetched records in `feeds` and  *)
(* computes, for each of the four metrics (`slug` tells which one is       *)
(* followed), chart points, metric points and aggregates.                  *)
(* page = "detail": MetricPage looks the requested slug up, fetches, and   *)
(* hands chart points to MetricDetail, which differences, filters by the   *)
(* selected range, normalizes and aggregates.  MetricDetail is also        *)
(* started on given props (pc = "chart").                                  *)
(***************************************************************************)
\* records of a channel: field1 battery, field2 humidity, field3 motion,
\* field4 temperature
FeedPool ==
    {Feed(T0, FieldText("number", 4, 1), FieldText("number", 40, 1),
              FieldText("number", 7, 1), FieldText("number", 21, 1)),
     Feed(T1, FieldNull, FieldText("junk", 0, 1),
              FieldText("number", 9, 1), FieldText("prefixed", 43, 2)),
     Feed(T2, FieldUndefined, FieldText("empty", 0, 1),
              FieldNull, FieldText("infinity", 0, 1)),
     Feed(T3, FieldText("number", 7, 2), FieldText("number", 0, 1),
              FieldText("number", 12, 1), FieldNull)}

FeedLists == SeqsUpTo(FeedPool, MaxFeeds)

\* the [metric] segment of a requested path
RequestedSlugs ==
    MetricSlugs \cup
    {<<>>,
     <<"M", "o", "t", "i", "o", "n">>,
     <<"H", "U", "M", "I", "D", "I", "T", "Y">>,
     <<"p", "r", "e", "s", "s", "u", "r", "e">>,
     <<"c", "o", "n", "s", "t", "r", "u", "c", "t", "o", "r">>,
     <<"_", "_", "p", "r", "o", "t", "o", "_", "_">>,
     <<"t", "o", "S", "t", "r", "i", "n", "g">>}

\* chart points given to MetricDetail as props
PropsPool ==
    {ChartValuePoint(t, v) : t \in {T0, T2}, v \in {Null, Num(3), Num(10)}}

\* what Date.now() may return when MetricDetail filters:
\* 2024-01-01T03:00Z and 2024-01-02T01:00Z
FilterClock == {Epoch(19723, 3 * ONE_HOUR_MS), Epoch(19724, ONE_HOUR_MS)}

\* values of the range <select>, as Number.parseInt reads them
\* ("60", "1440", "0", and a text that is no number)
RangeInputs == {Num(60), Num(1440), Num(0), NaN}

Environments ==
    {Environment("12345", "undefined", "KEY", "undefined"),
     Environment("undefined", "12345", "undefined", "KEY"),
     Environment("undefined", "undefined", "KEY", "undefined"),
     Environment("12345", "undefined", "", "KEY"),
     Environment("12345", "undefined", "undefined", "undefined")}

\* what the request to api.thingspeak.com comes to: a response with a status
\* and a body, a response whose body is no JSON, or no response at all
UpstreamResponse(status, body) == [k |-> "response", status |-> status, body |-> body]
Upstreams ==
    {UpstreamResponse(200, Body(TRUE, f)) : f \in FeedLists}
    \cup {UpstreamResponse(200, NoBody), UpstreamResponse(404, NoBody),
          UpstreamResponse(500, NoBody),
          [k |-> "malformed", status |-> 200, body |-> NoBody],
          [k |-> "rejected", status |-> 0, body |-> NoBody]}

\* a ?? b on the variables of the environment
Coalesce(a, b) == IF a = "undefined" THEN b ELSE a

\* what a call of an async function comes to: a value, or an Error thrown
Returned(data) == [threw |-> FALSE, message |-> NoError, data |-> data]
Thrown(message) == [threw |-> TRUE, message |-> message, data |-> NoBody]

\* fetchThingSpeakFeeds(options), given the environment and the upstream
fetchThingSpeakFeeds(env, upstream) ==
    LET channelId == Coalesce(env.THINGSPEAK_CHANNEL_ID,
                              env.NEXT_PUBLIC_THINGSPEAK_CHANNEL_ID)
        readKey == Coalesce(env.THINGSPEAK_READ_KEY,
                            env.NEXT_PUBLIC_THINGSPEAK_READ_KEY)
    IN  IF channelId \in {"undefined", ""} \/ readKey \in {"undefined", ""}
        THEN Thrown(ErrorMessage("ThingSpeak channel id or read key missing.", 0))
        ELSE IF upstream.k = "rejected"
        THEN Thrown(ErrorMessage("fetch failed", 0))
        ELSE IF ~ (upstream.status \in 200..299)
        THEN Thrown(ErrorMessage("ThingSpeak request failed with status",
                                 upstream.status))
        ELSE IF upstream.k = "malformed"
        THEN Thrown(ErrorMessage("Unexpected token", 0))
        ELSE Returned(upstream.body)

\* response.feeds ?? []
FeedsOrEmpty(body) == IF body.hasFeeds THEN body.feeds ELSE <<>>

\* MetricPage: getMetricConfig(params.metric), and notFound() for a falsy
\* result
GetMetricConfig ==
    /\ page = "detail"
    /\ pc = "route"
    /\ metric' = getMetricConfig(slug)
    /\ pc' = IF getMetricConfig(slug).k = "undefined" THEN "notFound" ELSE "fetch"
    /\ UNCHANGED <<chartPoints, isCumulative, clampNegative, series, metricPoints,
                   aggregates>>
    /\ UNCHANGED <<page, slug, rangeMinutes, filteredPoints, feeds, error, pollVars>>

\* MetricPage: the try block up to mapSeries, and the catch block; with an
\* error MetricDetail gets the empty chartPoints
FetchFeeds ==
    /\ page = "detail"
    /\ pc = "fetch"
    /\ \E env \in Environments, upstream \in Upstreams :
           LET result == fetchThingSpeakFeeds(env, upstream)
           IN  IF result.threw
               THEN /\ error' = result.message
                    /\ feeds' = feeds
                    /\ isCumulative' = IsCumulativeOf(metric)
                    /\ pc' = "chart"
               ELSE /\ feeds' = FeedsOrEmpty(result.data)
                    /\ error' = error
                    /\ isCumulative' = isCumulative
                    /\ pc' = "feeds"
    /\ UNCHANGED <<chartPoints, clampNegative, series, metricPoints, aggregates>>
    /\ UNCHANGED <<pageVars, pollVars>>

\* MetricPage: series.map(...) over mapSeries(feeds), then MetricDetail's
\* isCumulative
MapSeriesDetail ==
    /\ page = "detail"
    /\ pc = "feeds"
    /\ chartPoints' = MetricPageChartPoints(mapSeries(feeds), metric)
    /\ isCumulative' = IsCumulativeOf(metric)
    /\ pc' = "chart"
    /\ UNCHANGED <<clampNegative, series, metricPoints, aggregates>>
    /\ UNCHANGED <<pageVars, feeds, error, pollVars>>

\* Dashboard: rawSeries and the chart points of one metric; those of motion
\* are differenced when METRIC_CONFIG.motion.isCumulative
MapSeriesDashboard ==
    /\ page = "dashboard"
    /\ pc = "feeds"
    /\ chartPoints' = DashboardChartPoints(mapSeries(feeds), ValueKeyOf(metric))
    /\ isCumulative' = (slug = MOTION /\ IsCumulativeOf(METRIC_CONFIG(MOTION)))
    /\ pc' = "chart"
    /\ UNCHANGED <<clampNegative, series, metricPoints, aggregates>>
    /\ UNCHANGED <<pageVars, feeds, error, pollVars>>

\* MetricDetail: filteredPoints
FilterPointsByMinutes ==
    /\ page = "detail"
    /\ pc = "series"
    /\ \E now \in FilterClock :
           filteredPoints' = filterPointsByMinutes(series, rangeMinutes, now)
    /\ pc' = "filtered"
    /\ UNCHANGED pipelineVarsButPc
    /\ UNCHANGED <<page, slug, metric, rangeMinutes, feeds, error, pollVars>>

\* MetricDetail: buildMetricPoints(filteredPoints)
BuildFilteredMetricPoints ==
    /\ page = "detail"
    /\ pc = "filtered"
    /\ metricPoints' = buildMetricPoints(filteredPoints)
    /\ pc' = "points"
    /\ UNCHANGED <<chartPoints, isCumulative, clampNegative, series, aggregates>>
    /\ UNCHANGED <<pageVars, feeds, error, pollVars>>

\* MetricDetail: handleRangeChange; a new rangeMinutes has filteredPoints and
\* what depends on it computed again
HandleRangeChange ==
    /\ page = "detail"
    /\ pc = "done"
    /\ \E next \in RangeInputs :
           IF IsFinite(next) /\ next.n > 0 /\ next.n # rangeMinutes
           THEN rangeMinutes' = next.n /\ pc' = "series"
           ELSE rangeMinutes' = rangeMinutes /\ pc' = pc
    /\ UNCHANGED pipelineVarsButPc
    /\ UNCHANGED <<page, slug, metric, filteredPoints, feeds, error, pollVars>>

InitPages ==
    /\ page \in {"dashboard", "detail"}
    /\ \/ /\ page = "dashboard"
          /\ slug \in MetricSlugs
          /\ metric = METRIC_CONFIG(slug)
          /\ feeds \in FeedLists
          /\ pc = "feeds"
          /\ chartPoints = <<>>
          /\ isCumulative = FALSE
       \/ /\ page = "detail"
          /\ slug \in RequestedSlugs
          /\ metric = UndefinedConfig
          /\ feeds = <<>>
          /\ pc = "route"
          /\ chartPoints = <<>>
          /\ isCumulative = FALSE
       \/ /\ page = "detail"
          /\ slug \in {TEMPERATURE, MOTION}
          /\ metric = METRIC_CONFIG(slug)
          /\ feeds = <<>>
          /\ pc = "chart"
          /\ chartPoints \in SeqsUpTo(PropsPool, MaxLen) \cup Examples
          /\ isCumulative = IsCumulativeOf(metric)
    /\ clampNegative = TRUE
    /\ series = <<>>
    /\ metricPoints = <<>>
    /\ aggregates = <<>>
    /\ error = NoError
    /\ rangeMinutes = 1440
    /\ filteredPoints = <<>>
    /\ isRefreshing = FALSE
    /\ refreshMs = 30000
    /\ cancelled = <<>>
    /\ timer = 0
    /\ requests = <<>>
    /\ routeCall = NoCall
    /\ feedsFrom = 0

NextPages ==
    \/ GetMetricConfig
    \/ FetchFeeds
    \/ MapSeriesDetail
    \/ MapSeriesDashboard
    \/ DeriveDifferentialSeries
    \/ SkipDifferential
    \/ BuildMetricPoints
    \/ FilterPointsByMinutes
    \/ BuildFilteredMetricPoints
    \/ ComputeMetricAggregates
    \/ HandleRangeChange

SpecPages == InitPages /\ [][NextPages]_vars

(***************************************************************************)
(* The API route and Dashboard's polling effect.                           *)
(*                                                                         *)
(* Each run of the effect has its own `cancelled` flag and its own timer;  *)
(* refreshFeeds is an async function, so a call is split at its awaits:    *)
(* "fetch" (the response is awaited), "json" (the body is awaited) and     *)
(* "done".  `requests` holds the calls in the order of their issue.        *)
(***************************************************************************)
\* mutant: a failure is answered as a success without records
GETAnswersOk(env, upstream) ==
    LET result == fetchThingSpeakFeeds(env, upstream)
    IN  IF result.threw THEN RouteResponse(200, NoError, Body(TRUE, <<>>))
        ELSE RouteResponse(200, NoError, result.data)

\* GET(request) of /api/thingspeak
GET(env, upstream) ==
    LET result == fetchThingSpeakFeeds(env, upstream)
    IN  IF result.threw THEN RouteResponse(500, result.message, NoBody)
        ELSE RouteResponse(200, NoError, result.data)

\* the environments and upstream outcomes that the polling is run against
PollEnvironments ==
    {Environment("undefined", "12345", "undefined", "KEY"),
     Environment("12345", "undefined", "", "KEY")}
PollUpstreams ==
    {u \in Upstreams :
        /\ u.k \in {"response", "rejected"}
        /\ u.status # 500
        /\ u.body.hasFeeds =>
               Len(u.body.feeds) = 1 /\ u.body.feeds[1].created_at = T0}

\* a call of refreshFeeds by the given run of the effect; body is that of
\* the response, once there is one
Request(run) == [run |-> run, at |-> "fetch", outcome |-> "pending", body |-> NoBody]

\* values of the interval <select>, as Number.parseInt reads them
\* ("30000", "0", and a text that is no number)
IntervalInputs == {Num(30000), Num(0), NaN}

\* mutant: the flag of a run is never seen set
NeverCancelled(run) == FALSE

\* the `cancelled` flag in the closure of a run of the effect
IsCancelled(run) == cancelled[run]

\* the latest run of the effect
CurrentRun == Len(cancelled)

\* the cleanup of the current run: cancelled = true (and clearInterval)
CleanedUp == [cancelled EXCEPT ![CurrentRun] = TRUE]

\* the first run of the effect, after the first render
Mount ==
    /\ page = "dashboard"
    /\ pc = "polling"
    /\ cancelled = <<>>
    /\ cancelled' = <<FALSE>>
    /\ isRefreshing' = TRUE
    /\ requests' = Append(requests, Request(1))
    /\ timer' = IF refreshMs > 0 THEN 1 ELSE 0
    /\ UNCHANGED <<pipelineVars, pageVars, feeds, error, refreshMs, routeCall,
                   feedsFrom>>

\* handleIntervalChange, and for a new refreshMs the cleanup of the current
\* run and the next run of the effect
HandleIntervalChange ==
    /\ page = "dashboard"
    /\ pc = "polling"
    /\ cancelled # <<>>
    /\ Len(requests) < MaxRequests
    /\ \E nextValue \in IntervalInputs :
           IF IsFinite(nextValue) /\ nextValue.n # refreshMs
           THEN /\ refreshMs' = nextValue.n
                /\ cancelled' = Append(CleanedUp, FALSE)
                /\ isRefreshing' = TRUE
                /\ requests' = Append(requests, Request(CurrentRun + 1))
                /\ timer' = IF nextValue.n > 0 THEN CurrentRun + 1 ELSE 0
           ELSE UNCHANGED <<refreshMs, cancelled, isRefreshing, requests, timer>>
    /\ UNCHANGED <<pipelineVars, pageVars, feeds, error, routeCall, feedsFrom>>

\* the interval timer of a run fires: refreshFeeds up to its first await
TimerTick ==
    /\ timer # 0
    /\ Len(requests) < MaxRequests
    /\ isRefreshing' = TRUE
    /\ requests' = Append(requests, Request(timer))
    /\ UNCHANGED <<pipelineVars, pageVars, feeds, error, refreshMs, cancelled, timer,
                   routeCall, feedsFrom>>

\* the component is removed: the cleanup of the current run
Unmount ==
    /\ page = "dashboard"
    /\ pc = "polling"
    /\ cancelled # <<>>
    /\ page' = "unmounted"
    /\ cancelled' = CleanedUp
    /\ timer' = 0
    /\ UNCHANGED <<pipelineVars, slug, metric, rangeMinutes, filteredPoints, feeds,
                   error, isRefreshing, refreshMs, requests, routeCall, feedsFrom>>

\* refreshFeeds, the catch and the finally block
RefreshFailed(i, message, settled) ==
    /\ requests' = [requests EXCEPT ![i] = settled]
    /\ error' = IF IsCancelled(requests[i].run) THEN error ELSE message
    /\ isRefreshing' = IF IsCancelled(requests[i].run) THEN isRefreshing ELSE FALSE
    /\ UNCHANGED <<feeds, feedsFrom>>

\* refreshFeeds from `await fetch(...)` to `await response.json()`: the
\* request fails in the browser, or the route answers
ResponseArrives ==
    /\ pc = "polling"
    /\ \E i \in 1..Len(requests) :
        /\ requests[i].at = "fetch"
        /\ LET outcome == IF IsCancelled(requests[i].run) THEN "discarded" ELSE "failed"
           IN  \/ /\ RefreshFailed(i, ErrorMessage("Failed to fetch", 0),
                                   [requests[i] EXCEPT !.at = "done",
                                                       !.outcome = outcome])
                  /\ routeCall' = routeCall
               \/ \E env \in PollEnvironments, upstream \in PollUpstreams :
                      LET response == GET(env, upstream)
                          answered == [requests[i] EXCEPT !.body = response.data]
                      IN  /\ routeCall' = RouteCall(env, upstream, response)
                          /\ IF ~ (response.status \in 200..299)
                             THEN RefreshFailed(
                                      i,
                                      ErrorMessage("Request failed with status",
                                                   response.status),
                                      [answered EXCEPT !.at = "done",
                                                       !.outcome = outcome])
                             ELSE /\ requests' = [requests EXCEPT ![i] =
                                                     [answered EXCEPT !.at = "json"]]
                                  /\ UNCHANGED <<feeds, error, isRefreshing, feedsFrom>>
    /\ UNCHANGED <<pipelineVars, pageVars, refreshMs, cancelled, timer>>

\* refreshFeeds from `await response.json()` to its end: the body does not
\* come whole, or it is read
JsonArrives ==
    /\ pc = "polling"
    /\ \E i \in 1..Len(requests) :
        /\ requests[i].at = "json"
        /\ \/ RefreshFailed(i, ErrorMessage("Unexpected end of JSON input", 0),
                             [requests[i] EXCEPT
                                 !.at = "done",
                                 !.outcome = IF IsCancelled(requests[i].run)
                                             THEN "discarded" ELSE "failed"])
           \/ IF IsCancelled(requests[i].run)
              THEN /\ requests' = [requests EXCEPT ![i] =
                                      [@ EXCEPT !.at = "done", !.outcome = "discarded"]]
                   /\ UNCHANGED <<feeds, error, isRefreshing, feedsFrom>>
              ELSE /\ requests' = [requests EXCEPT ![i] =
                                      [@ EXCEPT !.at = "done", !.outcome = "applied"]]
                   /\ feeds' = FeedsOrEmpty(requests[i].body)
                   /\ error' = NoError
                   /\ isRefreshing' = FALSE
                   /\ feedsFrom' = i
    /\ UNCHANGED <<pipelineVars, pageVars, refreshMs, cancelled, timer, routeCall>>

\* Dashboard after its first render, with one record in the prop
\* initialFeeds and no initialError
InitPolling ==
    /\ page = "dashboard"
    /\ pc = "polling"
    /\ slug = TEMPERATURE
    /\ metric = METRIC_CONFIG(TEMPERATURE)
    /\ feeds = <<CHOOSE f \in FeedPool : f.created_at = T3>>
    /\ error = NoError
    /\ chartPoints = <<>>
    /\ isCumulative = FALSE
    /\ clampNegative = TRUE
    /\ series = <<>>
    /\ metricPoints = <<>>
    /\ aggregates = <<>>
    /\ rangeMinutes = 1440
    /\ filteredPoints = <<>>
    /\ isRefreshing = FALSE
    /\ refreshMs = 30000
    /\ cancelled = <<>>
    /\ timer = 0
    /\ requests = <<>>
    /\ routeCall = NoCall
    /\ feedsFrom = 0

NextPolling ==
    \/ Mount
    \/ HandleIntervalChange
    \/ TimerTick
    \/ Unmount
    \/ ResponseArrives
    \/ JsonArrives

SpecPolling == InitPolling /\ [][NextPolling]_vars

(***************************************************************************)
(* Properties of the Record Normalizer.                                    *)
(***************************************************************************)
\* buildMetricPoints has run on `series`
Normalized == pc \in {"points", "done"}

\* a chart point with the timestamp and the value of the metric point p
Source(p) == ChartValuePoint(p.timestamp, p.value)

\* the number of elements of the sequence s that satisfy Test
Count(s, Test(_)) == Cardinality({i \in 1..Len(s) : Test(s[i])})

\* the design's reasons to drop a chart point
NullValued(point) == point.value.k = "null"
NoTimestamp(point) == point.timestamp.k \in {"null", "empty"}
Unparseable(point) == DateParse(point.timestamp).k # "num"
Malformed(point) == NullValued(point) \/ NoTimestamp(point) \/ Unparseable(point)

SortedAscending(points) ==
    \A i, j \in 1..Len(points) :
        i < j => \/ points[i].epochMs.day < points[j].epochMs.day
                 \/ /\ points[i].epochMs.day = points[j].epochMs.day
                    /\ points[i].epochMs.ms <= points[j].epochMs.ms

\* C1: the output of buildMetricPoints is sorted ascending by epochMs, holds
\* no point whose source had a null value, a null or empty timestamp or a
\* timestamp that does not parse, and holds every source point with a
\* parseable timestamp and a finite value exactly as often as the input does.
C1_SortedAndFiltered ==
    Normalized =>
        /\ SortedAscending(metricPoints)
        /\ \A i \in 1..Len(metricPoints) :
               \E j \in 1..Len(series) :
                   /\ series[j] = Source(metricPoints[i])
                   /\ ~ Malformed(series[j])
        /\ \A j \in 1..Len(series) :
               LET Same(q) == q = series[j]
                   SameSource(p) == Source(p) = series[j]
               IN  /\ Malformed(series[j]) => Count(metricPoints, SameSource) = 0
                   /\ (~ Malformed(series[j]) /\ IsFinite(series[j].value)) =>
                          Count(metricPoints, SameSource) = Count(series, Same)

\* a run in which the Normalizer dropped points and had to reorder the rest
C1_Witness ==
    /\ Normalized
    /\ Len(metricPoints) >= 2
    /\ Len(metricPoints) < Len(series)
    /\ \E j \in 1..Len(series) : NoTimestamp(series[j])
    /\ metricPoints[1].epochMs # metricPoints[Len(metricPoints)].epochMs
    /\ Source(metricPoints[1]) # series[1]
    /\ ~ Malformed(series[1])

\* C2: no MetricPoint in the output of buildMetricPoints has a non-finite
\* value (NaN, +Infinity, -Infinity), and so none reaches the aggregates.
C2_NonFiniteExcluded ==
    /\ Normalized => \A i \in 1..Len(metricPoints) : IsFinite(metricPoints[i].value)
    /\ (pc = "done" /\ aggregates.sampleCount > 0) =>
           /\ IsFinite(aggregates.sum)
           /\ IsFinite(aggregates.average)
           /\ IsFinite(aggregates.min)
           /\ IsFinite(aggregates.max)

\* the elements of s that satisfy Test, in order
Select(s, Test(_)) == SelectSeq(s, Test)

\* C3: every output point has epochMs = Date.parse(its timestamp) and its
\* timestamp and value copied from a source point, and the output points
\* that share an epochMs are in the order in which the input has them.
C3_ParsedAndStable ==
    Normalized =>
        /\ \A i \in 1..Len(metricPoints) :
               /\ metricPoints[i].epochMs = DateParse(metricPoints[i].timestamp)
               /\ \E j \in 1..Len(series) : series[j] = Source(metricPoints[i])
        /\ \A i \in 1..Len(metricPoints) :
               LET e == metricPoints[i].epochMs
                   AtE(p) == p.epochMs = e
                   SurvivorAtE(q) ==
                       /\ DateParse(q.timestamp) = e
                       /\ \E k \in 1..Len(metricPoints) : Source(metricPoints[k]) = q
                   tied == Select(metricPoints, AtE)
                   from == Select(series, SurvivorAtE)
               IN  /\ Len(tied) = Len(from)
                   /\ \A k \in 1..Len(tied) : Source(tied[k]) = from[k]

\* a run with two different surviving points at one instant, in front of an
\* earlier point in the input
C3_Witness ==
    /\ Normalized
    /\ \E i \in 1..Len(metricPoints) - 1 :
           /\ metricPoints[i].epochMs = metricPoints[i + 1].epochMs
           /\ metricPoints[i].timestamp # metricPoints[i + 1].timestamp
           /\ metricPoints[i].value # metricPoints[i + 1].value
    /\ Len(metricPoints) = 3
    /\ Source(metricPoints[1]) = series[3]

(***************************************************************************)
(* Properties of the Differential Transformer.                             *)
(***************************************************************************)
\* deriveDifferentialSeries has run on chartPoints and returned `series`
Derived == isCumulative /\ pc # "chart"

\* the values of a series, in order
Values(points) == [i \in 1..Len(points) |-> points[i].value]

\* the counter readings at i - 1 and at i are both finite
BothFinite(i) ==
    /\ i > 1
    /\ chartPoints[i].value.k = "num"
    /\ chartPoints[i - 1].value.k = "num"

\* C4: where the current and the preceding input value are both finite, the
\* emitted value is current - previous if that is >= 0, and otherwise
\* max(0, current) with clamping and the negative difference without; with
\* clamping [10, 15, 12, 20] gives [null, 5, 12, 8] and [5, 0] gives 0 at the
\* reset.
C4_DeltaOrClamp ==
    Derived =>
        /\ \A i \in 1..Len(chartPoints) :
               BothFinite(i) =>
                   LET current == chartPoints[i].value.n
                       delta == current - chartPoints[i - 1].value.n
                   IN  series[i].value =
                           IF delta >= 0 THEN Num(delta)
                           ELSE IF clampNegative
                                THEN Num(IF current > 0 THEN current ELSE 0)
                                ELSE Num(delta)
        /\ (chartPoints = ResetExample /\ clampNegative) =>
               Values(series) = <<Null, Num(5), Num(12), Num(8)>>
        /\ (chartPoints = ZeroResetExample /\ clampNegative) =>
               Values(series) = <<Null, Num(0)>>

\* the counter of the worked example, differenced with clamping
C4_Witness ==
    /\ Derived
    /\ clampNegative
    /\ chartPoints = ResetExample
    /\ Values(series) = <<Null, Num(5), Num(12), Num(8)>>

\* C5: a value is emitted at index i only if the inputs at i and at i - 1
\* are both finite: a null or non-finite input emits null and so does the
\* first finite input at the start or behind a gap; [null, 10, null, 20]
\* gives four nulls.
C5_NullAcrossGaps ==
    Derived =>
        /\ \A i \in 1..Len(series) : series[i].value.k # "null" => BothFinite(i)
        /\ \A i \in 1..Len(series) : series[i].value.k \in {"null", "num"}
        /\ Len(series) > 0 => series[1].value = Null
        /\ chartPoints = GapExample => Values(series) = <<Null, Null, Null, Null>>

\* a counter with a reading, a gap and another reading behind the gap
C5_Witness ==
    /\ Derived
    /\ \E i \in 3..Len(chartPoints) :
           /\ chartPoints[i].value.k = "num"
           /\ chartPoints[i - 1].value.k # "num"
           /\ chartPoints[i - 2].value.k = "num"
           /\ series[i].value = Null

\* C6: the result has the length of the input and at each index the
\* timestamp of the input at that index.
C6_SameLengthSameTimestamps ==
    Derived =>
        /\ Len(series) = Len(chartPoints)
        /\ \A i \in 1..Len(chartPoints) :
               /\ series[i].timestamp = chartPoints[i].timestamp
               /\ DOMAIN series[i] = DOMAIN chartPoints[i]

\* a counter whose points are out of chronological order, have a gap and a
\* missing timestamp
C6_Witness ==
    /\ Derived
    /\ Len(chartPoints) = 3
    /\ chartPoints[1].timestamp = T1
    /\ chartPoints[2].timestamp = T0
    /\ chartPoints[3].timestamp = NullStamp
    /\ chartPoints[2].value = Null
    /\ series # chartPoints

\* C7: with clamping every emitted value that is not null is >= 0.
C7_ClampedNonNegative ==
    (Derived /\ clampNegative) =>
        \A i \in 1..Len(series) :
            \/ series[i].value.k = "null"
            \/ (series[i].value.k = "num" /\ series[i].value.n >= 0)

\* a counter that falls to a negative reading, differenced with clamping
C7_Witness ==
    /\ Derived
    /\ clampNegative
    /\ \E i \in 2..Len(chartPoints) :
           /\ BothFinite(i)
           /\ chartPoints[i].value.n < 0
           /\ chartPoints[i].value.n < chartPoints[i - 1].value.n
           /\ series[i].value = Num(0)

(***************************************************************************)
(* Properties of the Window Aggregator.                                    *)
(***************************************************************************)
\* computeMetricAggregates has run on metricPoints
Aggregated == pc = "done"

\* the sum of the integer values of a sequence of points
RECURSIVE IntSum(_)
IntSum(points) ==
    IF points = <<>> THEN 0 ELSE Head(points).value.n + IntSum(Tail(points))

\* index j of `series` holds the survivor that is latest in the input among
\* those at the greatest instant
LatestSurvivor(j) ==
    /\ ~ Malformed(series[j])
    /\ \A i \in 1..Len(series) :
           ~ Malformed(series[i]) =>
               LET a == DateParse(series[i].timestamp)
                   b == DateParse(series[j].timestamp)
               IN  \/ a.day < b.day
                   \/ (a.day = b.day /\ a.ms < b.ms)
                   \/ (a = b /\ i <= j)

\* C8: for a non-empty point sequence sampleCount is its length, sum the sum
\* of the values, average = sum / length, min and max the least and the
\* greatest value, latestValue and latestTimestamp those of the last
\* element, which is the survivor with the greatest epochMs and, among
\* several of those, the latest in the input.
C8_WholeSeries ==
    (Aggregated /\ Len(metricPoints) > 0) =>
        LET n == Len(metricPoints)
            a == aggregates
        IN  /\ a.sampleCount = n
            /\ a.sum = Num(IntSum(metricPoints))
            /\ a.average.k = "num"
            /\ a.average.n * n = IntSum(metricPoints) * a.average.d
            /\ \E i \in 1..n : metricPoints[i].value = a.min
            /\ \A i \in 1..n : a.min.k = "num" /\ a.min.n <= metricPoints[i].value.n
            /\ \E i \in 1..n : metricPoints[i].value = a.max
            /\ \A i \in 1..n : a.max.k = "num" /\ a.max.n >= metricPoints[i].value.n
            /\ a.latestValue = metricPoints[n].value
            /\ a.latestTimestamp = metricPoints[n].timestamp
            /\ \E j \in 1..Len(series) :
                   /\ LatestSurvivor(j)
                   /\ a.latestValue = series[j].value
                   /\ a.latestTimestamp = series[j].timestamp

\* aggregates of three points of which two share the greatest instant, with
\* an average that is no integer
C8_Witness ==
    /\ Aggregated
    /\ Len(metricPoints) = 3
    /\ metricPoints[2].epochMs = metricPoints[3].epochMs
    /\ metricPoints[2].timestamp # metricPoints[3].timestamp
    /\ metricPoints[1].epochMs # metricPoints[3].epochMs
    /\ aggregates.min # aggregates.max
    /\ aggregates.average.d = 3
    /\ aggregates.latestValue = Num(10)

\* C9: the raw points at 00:00, 01:00 and 02:00 of 2024-01-01 with the values
\* 10, 20 and null give two metric points and min = 10, max = 20,
\* average = 15, sum = 30, sampleCount = 2 and latestValue = 20.
C9_EndToEnd ==
    (Aggregated /\ ~ isCumulative /\ chartPoints = EndToEndExample) =>
        /\ Len(metricPoints) = 2
        /\ aggregates.min = Num(10)
        /\ aggregates.max = Num(20)
        /\ aggregates.average = Num(15)
        /\ aggregates.sum = Num(30)
        /\ aggregates.sampleCount = 2
        /\ aggregates.latestValue = Num(20)
        /\ aggregates.latestTimestamp = T1

\* the end-to-end example, aggregated
C9_Witness ==
    /\ Aggregated
    /\ ~ isCumulative
    /\ chartPoints = EndToEndExample
    /\ series = EndToEndExample
    /\ aggregates.sampleCount = 2

\* C10: for an empty point sequence every numeric field and latestTimestamp
\* is null, sampleCount is 0 and the three bucket lists are empty.
C10_EmptyAggregates ==
    (Aggregated /\ Len(metricPoints) = 0) =>
        /\ \A f \in {"latestValue", "min", "max", "average", "sum",
                     "lastHourAverage", "lastDayAverage", "lastMonthAverage",
                     "lastHourTotal", "lastDayTotal", "lastMonthTotal"} :
               aggregates[f] = Null
        /\ aggregates.latestTimestamp = NullStamp
        /\ aggregates.sampleCount = 0
        /\ aggregates.hourlyBuckets = <<>>
        /\ aggregates.dailyBuckets = <<>>
        /\ aggregates.monthlyBuckets = <<>>
        /\ \A mode \in {"hour", "day", "month"} :
               buildBuckets(metricPoints, mode, HOURLY_LIMIT) = <<>>

\* aggregates of a raw input of three points, all dropped by the Normalizer
C10_Witness ==
    /\ Aggregated
    /\ Len(series) = 3
    /\ metricPoints = <<>>
    /\ aggregates.sampleCount = 0

NonNegative(points) ==
    \A i \in 1..Len(points) : points[i].value.k = "num" /\ points[i].value.n >= 0

\* C12: where no value is negative, lastHourTotal, lastDayTotal and
\* lastMonthTotal are each at most the whole-series sum.
C12_WindowTotalAtMostSum ==
    (Aggregated /\ Len(metricPoints) > 0 /\ NonNegative(metricPoints)) =>
        \A f \in {"lastHourTotal", "lastDayTotal", "lastMonthTotal"} :
            /\ aggregates[f].k = "num"
            /\ aggregates[f].n * aggregates.sum.d <= aggregates.sum.n * aggregates[f].d

\* aggregates of non-negative values of which every window leaves some out
C12_Witness ==
    /\ Aggregated
    /\ Len(metricPoints) > 0
    /\ NonNegative(metricPoints)
    /\ aggregates.lastHourTotal.n < aggregates.lastDayTotal.n
    /\ aggregates.lastDayTotal.n < aggregates.lastMonthTotal.n
    /\ aggregates.lastMonthTotal.n < aggregates.sum.n

\* the point p is at most `days` days and `ms` milliseconds (ms <= ONE_DAY_MS)
\* older than the instant ref, which is not before it
NoOlderThan(p, ref, days, ms) ==
    LET dd == ref.day - p.epochMs.day
    IN  \/ dd < days
        \/ /\ dd <= days + 1
           /\ (dd - days) * ONE_DAY_MS + (ref.ms - p.epochMs.ms) <= ms

\* the totals and averages of the window reaching `days` days and `ms`
\* milliseconds back from the last point are those of fields fTotal, fAverage
WindowIs(days, ms, fTotal, fAverage) ==
    LET ref == metricPoints[Len(metricPoints)].epochMs
        In(p) == NoOlderThan(p, ref, days, ms)
        window == SelectSeq(metricPoints, In)
        avg == aggregates[fAverage]
    IN  /\ Len(window) > 0
        /\ aggregates[fTotal] = Num(IntSum(window))
        /\ avg.k = "num"
        /\ avg.n * Len(window) = IntSum(window) * avg.d

\* C13: the windows are measured from the epochMs of the last point and not
\* from the clock: the result is the same whatever Date.now() returns, and
\* the hour, day and month windows hold exactly the points no older than
\* 3,600,000 ms, 86,400,000 ms and 30 days (cutoff included), their totals
\* and averages being the sum and the mean of those points.
C13_WindowsFromLastPoint ==
    Aggregated =>
        /\ \A now \in WallClock : aggregates = computeMetricAggregates(metricPoints, now)
        /\ Len(metricPoints) > 0 =>
            /\ WindowIs(0, ONE_HOUR_MS, "lastHourTotal", "lastHourAverage")
            /\ WindowIs(0, ONE_DAY_MS, "lastDayTotal", "lastDayAverage")
            /\ WindowIs(ONE_MONTH_DAYS, 0, "lastMonthTotal", "lastMonthAverage")

\* aggregates of the readings at each cutoff and 1 ms before it: the reading
\* at a cutoff is in its window, the one before is not
C13_Witness ==
    /\ Aggregated
    /\ ~ isCumulative
    /\ chartPoints = WindowEdges
    /\ aggregates.lastHourTotal = Num(96)
    /\ aggregates.lastDayTotal = Num(120)
    /\ aggregates.lastMonthTotal = Num(126)
    /\ aggregates.sum = Num(127)

(***************************************************************************)
(* Properties of the buckets.                                              *)
(***************************************************************************)
Modes == {"hour", "day", "month"}

\* limits of a slice: natural numbers
Limits == {0, 1, 2, HOURLY_LIMIT}

\* the instant b is a UTC calendar boundary of the granularity `mode`
IsBoundary(mode, b) ==
    LET iso == ToISOString(b)
    IN  /\ iso.mi = 0 /\ iso.s = 0 /\ iso.ms = 0
        /\ mode \in {"day", "month"} => iso.h = 0
        /\ mode = "month" => iso.d = 1

\* the first boundary after the boundary b
NextBoundary(mode, b) ==
    LET iso == ToISOString(b)
    IN  CASE mode = "month" ->
                 DateParse(Iso(IF iso.mo = 12 THEN iso.y + 1 ELSE iso.y,
                               IF iso.mo = 12 THEN 1 ELSE iso.mo + 1, 1, 0, 0, 0, 0, 0))
          [] mode = "day" -> Epoch(b.day + 1, 0)
          [] OTHER -> IF b.ms + ONE_HOUR_MS = ONE_DAY_MS THEN Epoch(b.day + 1, 0)
                      ELSE Epoch(b.day, b.ms + ONE_HOUR_MS)

\* `start` is the greatest boundary at or before the point p
StartsBucketOf(mode, start, p) ==
    /\ start.k = "num"
    /\ IsBoundary(mode, start)
    /\ EpochCompare(start, p.epochMs) <= 0
    /\ EpochCompare(p.epochMs, NextBoundary(mode, start)) < 0

\* the points of metricPoints that belong to the bucket
PointsOf(mode, bucket) ==
    LET In(p) == StartsBucketOf(mode, DateParse(bucket.startIso), p)
    IN  SelectSeq(metricPoints, In)

\* every bucket that buildBuckets makes of metricPoints
AllBuckets(mode) == buildBuckets(metricPoints, mode, Len(metricPoints))

\* C14: buildBuckets returns at most `limit` buckets, strictly descending by
\* startIso, and the count of each is the number of input points whose
\* UTC-truncated start is the bucket's start; 25 hourly points with limit 12
\* give at most 12 hourly buckets.
C14_BoundedDescendingCounted ==
    Aggregated =>
        \A mode \in Modes, limit \in Limits :
            LET b == buildBuckets(metricPoints, mode, limit)
            IN  /\ Len(b) <= limit
                /\ \A i \in 1..(Len(b) - 1) :
                       EpochCompare(DateParse(b[i].startIso),
                                    DateParse(b[i + 1].startIso)) > 0
                /\ \A i \in 1..Len(b) : b[i].count = Len(PointsOf(mode, b[i]))

\* the aggregates of 25 hourly readings: 12 hourly buckets of one reading
\* each, the latest first
C14_Witness ==
    /\ Aggregated
    /\ ~ isCumulative
    /\ chartPoints = HourlyRun
    /\ Len(metricPoints) = 25
    /\ Len(aggregates.hourlyBuckets) = HOURLY_LIMIT
    /\ aggregates.hourlyBuckets[1].startIso = Iso(2024, 1, 2, 0, 0, 0, 0, 0)
    /\ aggregates.hourlyBuckets[HOURLY_LIMIT].startIso = Iso(2024, 1, 1, 13, 0, 0, 0, 0)
    /\ \A i \in 1..HOURLY_LIMIT : aggregates.hourlyBuckets[i].count = 1

\* C15: each point is in the bucket that starts at the greatest UTC calendar
\* boundary (top of the hour, start of the day, start of the 1st of the
\* month) at or before its epochMs: a point at a boundary is in the bucket
\* that starts there, a point 1 ms before it in the preceding bucket.
C15_GreatestBoundaryAtOrBefore ==
    Aggregated =>
        \A mode \in Modes :
            LET all == AllBuckets(mode)
            IN  \A j \in 1..Len(metricPoints) :
                    /\ StartsBucketOf(mode, startOf(mode, metricPoints[j].epochMs),
                                      metricPoints[j])
                    /\ \E i \in 1..Len(all) :
                           /\ all[i].startIso =
                                  ToISOString(startOf(mode, metricPoints[j].epochMs))
                           /\ StartsBucketOf(mode, DateParse(all[i].startIso),
                                             metricPoints[j])

\* a reading at 2024-01-01T00:00:00.000Z and one 1 ms before it are in
\* different hourly, daily and monthly buckets, the later one in the bucket
\* that starts at its own instant
C15_Witness ==
    /\ Aggregated
    /\ Len(metricPoints) = 2
    /\ metricPoints[1].timestamp = Iso(2023, 12, 31, 23, 59, 59, 999, 0)
    /\ metricPoints[2].timestamp = Iso(2024, 1, 1, 0, 0, 0, 0, 0)
    /\ \A f \in {"hourlyBuckets", "dailyBuckets", "monthlyBuckets"} :
           /\ Len(aggregates[f]) = 2
           /\ aggregates[f][1].startIso = Iso(2024, 1, 1, 0, 0, 0, 0, 0)
           /\ aggregates[f][1].total = metricPoints[2].value
           /\ aggregates[f][2].total = metricPoints[1].value
    /\ aggregates.hourlyBuckets[2].startIso = Iso(2023, 12, 31, 23, 0, 0, 0, 0)
    /\ aggregates.dailyBuckets[2].startIso = Iso(2023, 12, 31, 0, 0, 0, 0, 0)
    /\ aggregates.monthlyBuckets[2].startIso = Iso(2023, 12, 1, 0, 0, 0, 0, 0)

\* the key under which buildBuckets accumulates the point p
KeyOf(mode, p) == bucketKey(startOf(mode, p.epochMs), mode)

\* the points p and q have the same UTC-truncated bucket start, one of the
\* starts of the buckets `all`
SameStart(mode, all, p, q) ==
    \E i \in 1..Len(all) :
        /\ StartsBucketOf(mode, DateParse(all[i].startIso), p)
        /\ StartsBucketOf(mode, DateParse(all[i].startIso), q)

\* C16: two points are accumulated into the same bucket if and only if
\* their UTC-truncated bucket starts are the same instant: no two buckets
\* have the same start, and every bucket holds exactly the points of its
\* start, whatever the year or the month.
C16_KeyInjectiveOnStarts ==
    Aggregated =>
        \A mode \in Modes :
            LET all == AllBuckets(mode)
            IN  /\ \A i, j \in 1..Len(metricPoints) :
                       (KeyOf(mode, metricPoints[i]) = KeyOf(mode, metricPoints[j]))
                           <=> SameStart(mode, all, metricPoints[i], metricPoints[j])
                /\ \A i, j \in 1..Len(all) : i # j => all[i].startIso # all[j].startIso
                /\ \A i \in 1..Len(all) : all[i].count = Len(PointsOf(mode, all[i]))

\* readings at 10 o'clock on the 15th of January 2023, January 2024 and
\* February 2024 are in three hourly, three daily and three monthly buckets
C16_Witness ==
    /\ Aggregated
    /\ Len(metricPoints) = 3
    /\ metricPoints[1].timestamp = Iso(2023, 1, 15, 10, 30, 0, 0, 0)
    /\ metricPoints[2].timestamp = Iso(2024, 1, 15, 10, 0, 0, 0, 0)
    /\ metricPoints[3].timestamp = Iso(2024, 2, 15, 10, 59, 59, 999, 0)
    /\ Len(aggregates.hourlyBuckets) = 3
    /\ Len(aggregates.dailyBuckets) = 3
    /\ Len(aggregates.monthlyBuckets) = 3

\* the three bucket lists of the aggregates, with their granularity
BucketLists ==
    {<<"hour", aggregates.hourlyBuckets>>, <<"day", aggregates.dailyBuckets>>,
     <<"month", aggregates.monthlyBuckets>>}

\* C17: every returned bucket has count >= 1, total = the sum of the values
\* of its points, average = total / count; no average or total is null.
C17_BucketTotalsAndAverages ==
    Aggregated =>
        \A l \in BucketLists :
            \A i \in 1..Len(l[2]) :
                LET b == l[2][i]
                IN  /\ b.count >= 1
                    /\ b.count = Len(PointsOf(l[1], b))
                    /\ b.total = Num(IntSum(PointsOf(l[1], b)))
                    /\ b.average.k = "num"
                    /\ b.average.n * b.count = b.total.n * b.average.d

\* a monthly bucket of several readings, whose average is not its total
C17_Witness ==
    /\ Aggregated
    /\ Len(aggregates.monthlyBuckets) >= 2
    /\ \E i \in 1..Len(aggregates.monthlyBuckets) :
           /\ aggregates.monthlyBuckets[i].count >= 2
           /\ aggregates.monthlyBuckets[i].average # aggregates.monthlyBuckets[i].total
           /\ aggregates.monthlyBuckets[i].average.d > 1

\* the limit that computeMetricAggregates gives buildBuckets
LimitOf(mode) ==
    CASE mode = "hour" -> HOURLY_LIMIT
      [] mode = "day" -> DAILY_LIMIT
      [] OTHER -> MONTHLY_LIMIT

\* C18: with more buckets than the limit the most recent ones are kept:
\* every omitted bucket starts before every returned one; hourlyBuckets,
\* dailyBuckets and monthlyBuckets have at most 12, 10 and 6 buckets.
C18_MostRecentKept ==
    Aggregated =>
        \A l \in BucketLists :
            LET mode == l[1]
                returned == l[2]
                all == AllBuckets(mode)
                IsReturned(b) == \E i \in 1..Len(returned) : returned[i] = b
            IN  /\ Len(returned) <= LimitOf(mode)
                /\ Len(all) > LimitOf(mode) => Len(returned) = LimitOf(mode)
                /\ \A i \in 1..Len(returned) : \E k \in 1..Len(all) : all[k] = returned[i]
                /\ \A k \in 1..Len(all) :
                       ~ IsReturned(all[k]) =>
                           \A i \in 1..Len(returned) :
                               EpochCompare(DateParse(all[k].startIso),
                                            DateParse(returned[i].startIso)) < 0
                /\ \A j \in 1..Len(metricPoints) :
                       \/ \E i \in 1..Len(returned) :
                              StartsBucketOf(mode, DateParse(returned[i].startIso),
                                             metricPoints[j])
                       \/ \A i \in 1..Len(returned) :
                              EpochCompare(metricPoints[j].epochMs,
                                           DateParse(returned[i].startIso)) < 0

\* a series over 7 months, 11 days and 13 hours: the 6 latest months, the
\* 10 latest days and the 12 latest hours are returned
C18_Witness ==
    /\ Aggregated
    /\ ~ isCumulative
    /\ chartPoints = LongRun
    /\ Len(AllBuckets("month")) > MONTHLY_LIMIT
    /\ Len(AllBuckets("day")) > DAILY_LIMIT
    /\ Len(AllBuckets("hour")) > HOURLY_LIMIT
    /\ Len(aggregates.monthlyBuckets) = MONTHLY_LIMIT
    /\ Len(aggregates.dailyBuckets) = DAILY_LIMIT
    /\ Len(aggregates.hourlyBuckets) = HOURLY_LIMIT
    /\ aggregates.monthlyBuckets[1].startIso = Iso(2024, 3, 1, 0, 0, 0, 0, 0)
    /\ aggregates.monthlyBuckets[MONTHLY_LIMIT].startIso = Iso(2023, 10, 1, 0, 0, 0, 0, 0)
    /\ aggregates.dailyBuckets[1].startIso = Iso(2024, 3, 15, 0, 0, 0, 0, 0)
    /\ aggregates.dailyBuckets[DAILY_LIMIT].startIso = Iso(2023, 10, 15, 0, 0, 0, 0, 0)
    /\ aggregates.hourlyBuckets[1].startIso = Iso(2024, 3, 15, 8, 0, 0, 0, 0)
    /\ aggregates.hourlyBuckets[HOURLY_LIMIT].startIso = Iso(2023, 10, 15, 6, 0, 0, 0, 0)

AsChartPoints(points) == [i \in 1..Len(points) |-> Source(points[i])]

\* C21: normalization is idempotent: buildMetricPoints of its own output
\* (as timestamp/value pairs), and the output sorted again by epochMs, are
\* the output itself, in the same order.
C21_Idempotent ==
    Normalized =>
        /\ buildMetricPoints(AsChartPoints(metricPoints)) = metricPoints
        /\ SortByEpochMs(metricPoints) = metricPoints

\* a normalized series of two points at one instant and an earlier point
\* that came last in the input
C21_Witness ==
    /\ Normalized
    /\ Len(series) = 3
    /\ Len(metricPoints) = 3
    /\ metricPoints[2].epochMs = metricPoints[3].epochMs
    /\ metricPoints[2] # metricPoints[3]
    /\ Source(metricPoints[1]) = series[3]

\* the three windows as computeMetricAggregates filters them
WindowOf(span) ==
    LET referenceMs == metricPoints[Len(metricPoints)].epochMs
    IN  CASE span = "hour" -> WindowPoints(metricPoints, EpochMinusMs(referenceMs, ONE_HOUR_MS))
          [] span = "day" -> WindowPoints(metricPoints, EpochMinusMs(referenceMs, ONE_DAY_MS))
          [] OTHER -> WindowPoints(metricPoints, EpochMinusDays(referenceMs, ONE_MONTH_DAYS))

\* every element of the sequence s is an element of the sequence t
ElementsWithin(s, t) == \A i \in 1..Len(s) : \E j \in 1..Len(t) : t[j] = s[i]

WindowFields ==
    {"lastHourAverage", "lastDayAverage", "lastMonthAverage",
     "lastHourTotal", "lastDayTotal", "lastMonthTotal"}

\* C28: for a non-empty normalized sequence the six window fields are not
\* null (the last point is in every window), the hour window is within the
\* day window and that within the month window, and for non-negative values
\* lastHourTotal <= lastDayTotal <= lastMonthTotal <= sum.
C28_NestedWindows ==
    (Aggregated /\ Len(metricPoints) > 0) =>
        LET a == aggregates
            hour == WindowOf("hour")
            day == WindowOf("day")
            month == WindowOf("month")
        IN  /\ \A f \in WindowFields : a[f].k # "null"
            /\ hour # <<>> /\ hour[Len(hour)] = metricPoints[Len(metricPoints)]
            /\ ElementsWithin(hour, day)
            /\ ElementsWithin(day, month)
            /\ ElementsWithin(month, metricPoints)
            /\ a.lastHourTotal = SumValues(hour)
            /\ a.lastDayTotal = SumValues(day)
            /\ a.lastMonthTotal = SumValues(month)
            /\ NonNegative(metricPoints) =>
                   /\ a.lastHourTotal.n <= a.lastDayTotal.n
                   /\ a.lastDayTotal.n <= a.lastMonthTotal.n
                   /\ a.lastMonthTotal.n <= a.sum.n

\* aggregates of non-negative readings with a point outside the month
\* window, one more outside the day window and one more outside the hour
\* window
C28_Witness ==
    /\ Aggregated
    /\ Len(metricPoints) >= 4
    /\ NonNegative(metricPoints)
    /\ Len(WindowOf("hour")) < Len(WindowOf("day"))
    /\ Len(WindowOf("day")) < Len(WindowOf("month"))
    /\ Len(WindowOf("month")) < Len(metricPoints)
    /\ aggregates.lastHourTotal.n < aggregates.lastDayTotal.n

\* the sums of count and of total over a bucket list
RECURSIVE SumOfCounts(_)
SumOfCounts(buckets) ==
    IF buckets = <<>> THEN 0 ELSE Head(buckets).count + SumOfCounts(Tail(buckets))

RECURSIVE SumOfTotals(_)
SumOfTotals(buckets) ==
    IF buckets = <<>> THEN 0 ELSE Head(buckets).total.n + SumOfTotals(Tail(buckets))

\* the bucket starts of the points of metricPoints
DistinctStarts(mode) ==
    {startOf(mode, metricPoints[j].epochMs) : j \in 1..Len(metricPoints)}

Routed == page = "detail" /\ pc # "route"

\* C30: getMetricConfig returns a descriptor exactly when the lower-cased
\* slug is temperature, humidity, motion or battery, and then the descriptor
\* of that slug; for every other string (empty, unknown, or the name of an
\* inherited object property) it returns undefined and the metric page
\* answers not-found.  Exactly one descriptor, motion, is cumulative.
C30_DescriptorOrUndefined ==
    /\ Routed =>
          IF ToLowerCase(slug) \in MetricSlugs
          THEN /\ metric.k = "descriptor"
               /\ metric.slug = ToLowerCase(slug)
               /\ pc # "notFound"
          ELSE /\ metric.k = "undefined"
               /\ pc = "notFound"
    /\ {s \in MetricSlugs : IsCumulativeOf(METRIC_CONFIG(s))} = {MOTION}

\* the field of a record that holds the reading of a metric (buildSnapshot)
FieldOf(feed, valueKey) ==
    CASE valueKey = "temperature" -> feed.field4
      [] valueKey = "humidity" -> feed.field2
      [] valueKey = "motion" -> feed.field3
      [] valueKey = "battery" -> feed.field1

\* the chart points of the followed metric have been made from `feeds`
Charted ==
    /\ page \in {"dashboard", "detail"}
    /\ pc \in {"chart", "series", "filtered", "points", "done"}
    /\ Len(chartPoints) = Len(feeds)
    /\ metric.k = "descriptor"

\* C24: for each of the four metrics the chart points carry that metric's
\* reading: where the field of a fetched record is a parseable number, the
\* value of the chart point made from the record is that number, on the
\* dashboard and on the metric detail page.
C24_ChartPointsCarryReading ==
    Charted =>
        \A i \in 1..Len(feeds) :
            LET field == FieldOf(feeds[i], metric.valueKey)
            IN  field.k = "string" /\ field.text \in {"number", "prefixed"}
                    => chartPoints[i].value = Rat(field.n, field.d)

\* the points that the Normalizer is given
NormalizerInput == IF page = "detail" THEN filteredPoints ELSE series

\* C23: a null reading is never turned into 0 on the way from the field
\* parser to the aggregates: a missing or unparseable field gives a null
\* chart point; the differences of a cumulative metric are null at a null
\* input and at the point after it; the Normalizer drops the null-valued
\* points, so that the metric points, and with them every count, sum,
\* average, min and max, are those of the input without its null readings.
C23_NullNeverZero ==
    /\ Charted /\ metric.valueKey \in {"temperature", "humidity"} =>
          \A i \in 1..Len(feeds) :
              LET field == FieldOf(feeds[i], metric.valueKey)
              IN  /\ field.k \in {"null", "undefined"}
                        \/ field.text \in {"junk", "empty", "infinity"}
                      => chartPoints[i].value = Null
                  /\ chartPoints[i].value = Num(0)
                      => field.k = "string" /\ field.text \in {"number", "prefixed"}
                         /\ field.n = 0
    /\ isCumulative /\ pc \in {"series", "filtered", "points", "done"} =>
          \A i \in 1..Len(chartPoints) :
              chartPoints[i].value = Null =>
                  /\ series[i].value = Null
                  /\ i < Len(chartPoints) => series[i + 1].value = Null
    /\ Normalized =>
          /\ \A i \in 1..Len(metricPoints) : metricPoints[i].value # Null
          /\ metricPoints =
                 buildMetricPoints(SelectSeq(NormalizerInput,
                                             LAMBDA point : point.value # Null))
    /\ Aggregated =>
          aggregates.sampleCount =
              Count(NormalizerInput, LAMBDA point : ~ Malformed(point))

\* the dashboard's humidity: of two records, one with an unparseable field
\* and one that reads "0", the second alone is counted
C23_Witness ==
    /\ page = "dashboard"
    /\ slug = HUMIDITY
    /\ Aggregated
    /\ Len(feeds) = 2
    /\ feeds[1].field2.text = "junk"
    /\ feeds[2].field2 = FieldText("number", 0, 1)
    /\ aggregates.sampleCount = 1
    /\ aggregates.sum = Num(0)
    /\ aggregates.min = Num(0)


\* the differencing step is behind: `series` is what the later stages use
Staged == pc \in {"series", "filtered", "points", "done"}

\* the points of a series with a value
WithValue(points) == SelectSeq(points, LAMBDA point : point.value # Null)

Settles(i) == requests[i].at # "done" /\ requests'[i].at = "done"

\* C25: once a run of the polling effect is cleaned up (the interval was
\* changed or the component removed), its interval timer is cleared, it
\* starts no refresh, and a response or a failure of a refresh of that run
\* that was still in flight changes none of feeds, error and isRefreshing.
C25_CleanedUpRunChangesNothing ==
    [][/\ timer' # 0 => ~ cancelled'[timer']
       /\ Len(requests') > Len(requests) =>
              ~ cancelled'[requests'[Len(requests')].run]
       /\ \A i \in 1..Len(requests) :
              cancelled[requests[i].run] /\ requests'[i] # requests[i] =>
                  /\ feeds' = feeds
                  /\ error' = error
                  /\ isRefreshing' = isRefreshing]_vars

\* the interval was changed while a refresh was in flight; its response,
\* with a record, came later and was dropped
C25_Witness ==
    /\ page = "dashboard"
    /\ Len(cancelled) = 2
    /\ \E i \in 1..Len(requests) :
           /\ requests[i].run = 1
           /\ requests[i].at = "done"
           /\ requests[i].outcome = "discarded"
           /\ requests[i].body.hasFeeds
           /\ feeds # requests[i].body.feeds
    /\ isRefreshing

\* the channel id or the read key is missing: the variable and its
\* NEXT_PUBLIC_ fallback give no non-empty value
CredentialsMissing(env) ==
    \/ env.THINGSPEAK_CHANNEL_ID = ""
    \/ env.THINGSPEAK_CHANNEL_ID = "undefined"
         /\ env.NEXT_PUBLIC_THINGSPEAK_CHANNEL_ID \in {"undefined", ""}
    \/ env.THINGSPEAK_READ_KEY = ""
    \/ env.THINGSPEAK_READ_KEY = "undefined"
         /\ env.NEXT_PUBLIC_THINGSPEAK_READ_KEY \in {"undefined", ""}

\* C26: a failure of the fetch layer is reported as an error, never as empty
\* data: a failed refresh of a run that is not cleaned up sets error and
\* leaves feeds (and so every aggregate, each a function of feeds) as it
\* was; a successful one replaces feeds and clears error; the API route
\* answers 500 with an error message when the fetch throws (channel id or
\* read key missing, upstream status not OK, no upstream response) and 200
\* with the data otherwise.
C26_FailureIsAnError ==
    [][/\ \A i \in 1..Len(requests) :
              Settles(i) /\ ~ cancelled[requests[i].run] =>
                  /\ requests'[i].outcome \in {"failed", "applied"}
                  /\ requests'[i].outcome = "failed" =>
                         /\ error'.k = "message"
                         /\ feeds' = feeds
                  /\ requests'[i].outcome = "applied" =>
                         /\ requests[i].at = "json"
                         /\ feeds' = FeedsOrEmpty(requests[i].body)
                         /\ error' = NoError
                  /\ routeCall' # routeCall /\ routeCall'.response.status # 200 =>
                         requests'[i].outcome = "failed"
       /\ routeCall' # routeCall =>
              LET call == routeCall'
                  throws == \/ CredentialsMissing(call.env)
                            \/ call.upstream.k # "response"
                            \/ ~ (call.upstream.status \in 200..299)
              IN  IF throws
                  THEN /\ call.response.status = 500
                       /\ call.response.error.k = "message"
                       /\ ~ call.response.data.hasFeeds
                  ELSE /\ call.response.status = 200
                       /\ call.response.error = NoError
                       /\ call.response.data = call.upstream.body]_vars

\* after a refresh that loaded a record, the route answers 500 to the next
\* one: error is set and the record of the earlier refresh is still there
C26_Witness ==
    /\ routeCall.response.status = 500
    /\ error = ErrorMessage("Request failed with status", 500)
    /\ feedsFrom # 0
    /\ Len(feeds) = 1
    /\ \E i \in 1..Len(requests) :
           /\ i > feedsFrom
           /\ requests[i].at = "done"
           /\ requests[i].outcome = "failed"
           /\ ~ cancelled[requests[i].run]

\* C27: within one run of the polling effect, feeds is that of the most
\* recently issued refresh that has completed: the response of a refresh
\* issued earlier never replaces feeds set from a refresh issued later.
C27_LatestIssuedWins ==
    \A i \in 1..Len(requests) :
        requests[i].outcome = "applied" => feedsFrom >= i

====
